---- MODULE Spec2Model ----
(***************************************************************************)
(* A model of these parts of skyhook-io/explorer:                          *)
(*   - the image inspector's filesystem reconstruction and file lookup     *)
(*     over OCI layers (package images, inspector),                        *)
(*   - the image inspector's on-disk layer cache (same file),              *)
(*   - the RBAC capability cache (internal/k8s/capabilities.go),           *)
(*   - the browser's event-stream hook (useEventSource),                   *)
(*   - the image inspector's registry access (fetchImageBruteForce,        *)
(*     internal/images/auth.go),                                           *)
(*   - the release handlers (package helm),                                *)
(*   - the Argo application sync handler (internal/server).                *)
(* Each part has its own specification; a specification keeps the          *)
(* variables of the other parts at their initial values.                   *)
(***************************************************************************)
EXTENDS Integers, Sequences, FiniteSets, TLC

VARIABLES
    \* ---- wall clock, in seconds
    now,
    \* ---- capability cache (internal/k8s/capabilities.go)
    cachedCapabilities,   \* the cached *Capabilities (present = non-nil)
    capabilitiesExpiry,   \* time after which the cached value is stale
    capabilitiesMu,       \* 0, or the caller that holds the write lock
    clientReady,          \* GetClient() # nil
    ccPc,                 \* where each CheckCapabilities caller stands
    ccOut,                \* what each caller's call returned
    probeStart,           \* history: when the probe round in progress began
    lastRound,            \* history: when the last probe round was stored,
                          \* whether no invalidation followed it, and whether
                          \* that invalidation had to wait for the write lock
    invPc,                \* "blocked" while an InvalidateCapabilitiesCache call
                          \* waits for the write lock
    \* ---- image layer cache (package images, Inspector)
    cacheDir,     \* the cache directory: what is on disk for each digest
    reqPc,        \* where each image request (Inspect, GetFileContent,
                  \* GetMetadata) stands
    reqDigest,    \* the digest of the image the request fetched
    reqHeld,      \* the layer paths and metadata the request holds
    reqOut,       \* what the request returned
    cacheLog,     \* history: the last operation that changed the cache
                  \* directory and the directories it logged as removed
    \* ---- filesystem reconstruction / get_file (pure functions of the layers)
    image,        \* the layer files handed to the two functions: Seq(Seq(header))
    fsOut,        \* what buildFilesystemTreeFromFiles returned, or None
    fileOut,      \* the path asked of get_file and what
                  \* readFileFromCachedLayers returned for it, or None
    \* ---- the browser's event-stream hook (useEventSource); its clock is in ms
    topology,                       \* the topology the hook exposes
    waitingForTopologyAfterSwitch,
    lastTopologyUpdateRef,
    pendingTopologyRef,             \* the snapshot held back by the throttle
    throttleTimeoutRef,             \* 0, or when the throttle timer is due
    sseContext,   \* history: how many context_changed events were handled
    \* ---- registry access of one image request (fetchImageBruteForce, GetMetadata)
    authReq,      \* the request, and what the registry and the credential
                  \* sources hold for it
    authPc,       \* where the request stands
    authLog,      \* history: the credential sources consulted, in order
    authKey,      \* the authenticator the keychain resolved to
    authFetch,    \* what fetchImageBruteForce returned
    metaOut,      \* what GetMetadata returned
    \* ---- release handlers (package helm)
    helmClient,   \* GetClient() # nil
    helmAccess,   \* the release operations the cluster allows the process
    helmCalls,    \* history: the calls made to the release library
    helmResp,     \* the response to the last request
    \* ---- Argo application sync (handleArgoSync)
    argoClient,   \* k8s.GetDynamicClient() # nil
    argoApp,      \* the application in the cluster: its operation, its phase
    argoPc,       \* where each sync request stands
    argoSeen,     \* the application each request fetched
    argoPatches,  \* history: how many sync patches the cluster received
    argoResp,     \* what each sync request was answered
    \* ---- HTTP handlers of the image inspector (handleMetadata, handleInspect, handleGetFile)
    imgCall,   \* the last image request: the operation and the InspectRequest
                  \* its handler built, and how the inspector call ended
    imgResp,  \* the response to it
    \* ---- the resource view's health badge (determineHealth)
    healthIn,   \* the kind and the resource last handed to determineHealth
    healthOut,  \* what determineHealth returned for it
    \* ---- the per-layer read loop of buildFilesystemTreeFromFiles / readFileFromCachedLayers
    tarFn,   \* the function that reads: buildFilesystemTreeFromFiles or
                  \* readFileFromCachedLayers
    tarLayers,   \* the layer files it was handed
    tarIdx,   \* the layer it is at
    tarPos,   \* the entry of the layer the reader is at
    tarErr,   \* the reader has failed (tar.Reader keeps its error)
    tarCancelled,   \* ctx.Done() is closed
    tarPc,  \* where the function stands
    tarSpin,   \* flips each time the inner loop goes round again after a read error
    \* ---- Hubble traffic source (internal/traffic/hubble.go)
    hubble,   \* the HubbleSource fields (internal/traffic/hubble.go)
    hubPc,   \* position of the Connect call that holds mu, "idle" when mu is free
    hubCall,   \* the Connect call in progress: its argument and the state it found
    hubResp,   \* the last MetricsConnectionInfo returned
    pfStarts,   \* calls of StartMetricsPortForward so far
    grpcDials,   \* calls of grpc.NewClient so far
    hubFrom,   \* the context that was current when each discovered setting was stored
    pfRunning,   \* a port-forward started by Connect has not been stopped
    hubCalls,  \* Connect, Close and Detect calls so far
    \* ---- StreamFlows (internal/traffic/hubble.go)
    strPc,   \* where the StreamFlows goroutine stands
    strClient,   \* the observer client the goroutine read was non-nil
    strStream,   \* the GetFlows stream: "none", "open" or "ended"
    strCancelled,   \* ctx is done
    flowLen,   \* flows buffered in flowCh
    flowClosed,   \* times flowCh has been closed
    strDropped,   \* a flow has been dropped because flowCh was full
    sentAfterClose,  \* a flow has been sent on the closed flowCh
    \* ---- handleArgoTerminate (internal/server/argo_handlers.go)
    termPc,   \* position of the terminate request
    termSeen,   \* the application the terminate request fetched
    termPatch,   \* what the remove patch of the terminate request met
    termResp,  \* HTTP status of the terminate request, 0 while unanswered
    \* ---- handleArgoSuspend and handleArgoResume (internal/server/argo_handlers.go)
    polApp,   \* the Application: its automated sync policy and the two saved-settings annotations
    polLog   \* the suspend and resume requests handled so far, with the application before and after

fsVars == <<image, fsOut, fileOut>>
capsVars == <<cachedCapabilities, capabilitiesExpiry, capabilitiesMu, clientReady,
              ccPc, ccOut, probeStart, lastRound, invPc>>
cacheVars == <<cacheDir, reqPc, reqDigest, reqHeld, reqOut, cacheLog>>
sseVars == <<topology, waitingForTopologyAfterSwitch, lastTopologyUpdateRef,
             pendingTopologyRef, throttleTimeoutRef, sseContext>>
\* the parts a step of the image inspector or the capability cache never touches
authVars == <<authReq, authPc, authLog, authKey, authFetch, metaOut>>
helmVars == <<helmClient, helmAccess, helmCalls, helmResp>>
argoVars == <<argoClient, argoApp, argoPc, argoSeen, argoPatches, argoResp>>
imgVars == <<imgCall, imgResp>>
healthVars == <<healthIn, healthOut>>
tarVars == <<tarFn, tarLayers, tarIdx, tarPos, tarErr, tarCancelled, tarPc, tarSpin>>
hubVars == <<hubble, hubPc, hubCall, hubResp, pfStarts, grpcDials, hubFrom, pfRunning, hubCalls>>
strVars == <<strPc, strClient, strStream, strCancelled, flowLen, flowClosed, strDropped, sentAfterClose>>
termVars == <<termPc, termSeen, termPatch, termResp>>
polVars == <<polApp, polLog>>
extVars == <<sseVars, authVars, helmVars, argoVars, imgVars, healthVars, tarVars, hubVars, strVars, termVars, polVars>>
vars == <<now, capsVars, cacheVars, fsVars, extVars>>

None == "none"

\* a nil []byte (the bytes of an entry are identified by a number >= 0)
Nil == -1

\* no call has returned yet
NotYet == [ done |-> FALSE ]

Min(a, b) == IF a <= b THEN a ELSE b

(***************************************************************************)
(* Bounds of the model                                                     *)
(***************************************************************************)
MaxEntries == 3      \* tar headers in an image, all layers together
NumCallers == 2      \* concurrent CheckCapabilities callers
MaxCapsTime == 90    \* the clock stops here in the capability specification
NumRequests == 2     \* concurrent image requests
MaxCacheTime == 300  \* the clock stops here in the layer-cache specifications
MaxContexts == 2     \* context_changed events the event-stream hook handles
SseMountTime == 3000 \* Date.now() when the hook mounts (ms)
MaxSseTicks == 4     \* half-second clock steps in the event-stream specification
NumSyncs == 2        \* concurrent Argo sync requests
MaxPatches == 2      \* sync patches the cluster receives
MaxReplicas == 2     \* replica counts of a workload
MaxContainers == 2   \* container statuses of a pod
MaxTarLayers == 2    \* layer files handed to the read loop
MaxTarItems == 2     \* entries of a layer file in the read loop

(***************************************************************************)
(* Paths.  A slash-separated path is the sequence of its components; "/"   *)
(* is the empty sequence.                                                  *)
(***************************************************************************)
Root == << >>

\* filepath.Clean of an absolute path: "." components vanish, ".." removes
\* the component before it and is dropped at the root.
RECURSIVE CleanFrom(_, _)
CleanFrom(acc, rest) ==
    IF rest = << >> THEN acc
    ELSE LET c == Head(rest) IN
         IF c = "." THEN CleanFrom(acc, Tail(rest))
         ELSE IF c = ".."
              THEN CleanFrom(IF acc = << >> THEN acc ELSE SubSeq(acc, 1, Len(acc) - 1),
                             Tail(rest))
              ELSE CleanFrom(Append(acc, c), Tail(rest))

\* path := filepath.Clean("/" + strings.TrimPrefix(name, "./"))
Clean(name) == CleanFrom(<< >>, name)

\* filepath.Dir and filepath.Base of a cleaned absolute path
Dir(p) == IF p = Root THEN Root ELSE SubSeq(p, 1, Len(p) - 1)
Base(p) == IF p = Root THEN "/" ELSE p[Len(p)]

\* strings.TrimPrefix(name, ".wh.") for the names that start with ".wh."
TrimWh ==
    (".wh.a" :> "a") @@ (".wh.b" :> "b") @@ (".wh..wh..opq" :> ".wh..opq")
    @@ (".wh..opq" :> ".opq")

\* strings.HasPrefix(name, ".wh.")
HasWhPrefix(n) == n \in DOMAIN TrimWh

\* strings.HasPrefix(p, path + "/"): no path starts with "//"
HasPathPrefix(p, path) ==
    /\ path # Root
    /\ Len(p) > Len(path)
    /\ SubSeq(p, 1, Len(path)) = path

\* a is p or a directory above p (used by the properties, not by the code)
IsAtOrAbove(a, p) == Len(a) <= Len(p) /\ SubSeq(p, 1, Len(a)) = a

(***************************************************************************)
(* Tar headers.  count > 1 stands for the same header occurring count      *)
(* times in a row in the layer; data identifies the bytes of the entry.    *)
(***************************************************************************)
maxFileCount == 50000
\* 5 << 30 bytes; sizes are counted in KiB
maxTotalSize == 5242880

Hdr(n, t, s, d, c) == [name |-> n, typeflag |-> t, size |-> s, data |-> d, count |-> c]

TarEntries ==
    { Hdr(<<"a">>, "dir", 0, 0, 1),
      Hdr(<<".", "a", "b">>, "reg", 1, 1, 1),
      Hdr(<<"a", "b">>, "reg", 2, 2, 1),
      Hdr(<<"b">>, "symlink", 0, 0, 1),
      Hdr(<<"b">>, "reg", 1, 3, maxFileCount),
      Hdr(<<"b">>, "reg", 6291456, 4, 1),
      Hdr(<<".wh.a">>, "reg", 0, 0, 1),
      Hdr(<<"a", ".wh.b">>, "reg", 0, 0, 1),
      Hdr(<<".wh.b">>, "reg", 0, 0, 1) }

\* the paths a caller asks get_file for
FilePaths == { <<"a", "b">>, <<"b">>, <<"a">> }

(***************************************************************************)
(* Layers of an image: the headers in order, cut into non-empty layers at  *)
(* the positions in cuts.                                                  *)
(***************************************************************************)
RECURSIVE SeqsUpTo(_, _)
SeqsUpTo(S, n) ==
    IF n = 0 THEN { << >> }
    ELSE LET shorter == SeqsUpTo(S, n - 1) IN
         shorter \cup { Append(q, x) : q \in { r \in shorter : Len(r) = n - 1 }, x \in S }

LayerOf(cuts, i) == 1 + Cardinality({ c \in cuts : c < i })

SplitLayers(flat, cuts) ==
    IF flat = << >> THEN << >>
    ELSE [ k \in 1 .. (1 + Cardinality(cuts)) |->
             LET idx == { i \in 1 .. Len(flat) : LayerOf(cuts, i) = k }
                 lo  == CHOOSE i \in idx : \A j \in idx : i <= j
             IN  [ n \in 1 .. Cardinality(idx) |-> flat[lo + n - 1] ] ]

\* the images of at most n headers taken from E
ImagesOver(E, n) ==
    UNION { { SplitLayers(flat, cuts) : cuts \in SUBSET (1 .. (Len(flat) - 1)) }
            : flat \in SeqsUpTo(E, n) }
Images(n) == ImagesOver(TarEntries, n)

\* all headers of an image in apply order (bottom layer first)
RECURSIVE Flatten(_)
Flatten(ls) == IF ls = << >> THEN << >> ELSE Head(ls) \o Flatten(Tail(ls))

(***************************************************************************)
(* buildFilesystemTreeFromFiles                                            *)
(***************************************************************************)
\* the FileNode fields the layers decide (Name and Path are the map key)
Node(h) ==
    [ type |-> IF h.typeflag = "dir" THEN "dir"
               ELSE IF h.typeflag = "symlink" THEN "symlink" ELSE "file",
      size |-> h.size,
      data |-> h.data ]

ImplicitDir == [ type |-> "dir", size |-> 0, data |-> 0 ]

RECURSIVE ensureParentDirs(_, _)
ensureParentDirs(fileMap, path) ==
    LET dir == Dir(path) IN
    IF dir = Root THEN fileMap
    ELSE IF dir \in DOMAIN fileMap THEN fileMap
    ELSE ensureParentDirs((dir :> ImplicitDir) @@ fileMap, dir)

deleteFromTree(fileMap, path) ==
    LET keep == { p \in DOMAIN fileMap : p # path /\ ~HasPathPrefix(p, path) }
    IN  [ p \in keep |-> fileMap[p] ]

\* filepath.Join(filepath.Dir(path), strings.TrimPrefix(name, ".wh."))
DeletedPath(path) == Clean(Append(Dir(path), TrimWh[Base(path)]))

\* One pass of the loop body after the file-count check, for a header that
\* occurs n times in a row (n >= 1 passes it; the map is the same after the
\* first pass, the counters advance by each pass).
ApplyHeader(s, h, n) ==
    LET path == Clean(h.name)
        name == Base(path)
    IN  IF HasWhPrefix(name)
        THEN [ s EXCEPT !.fileMap = deleteFromTree(s.fileMap, DeletedPath(path)) ]
        ELSE IF path = Root THEN s
        ELSE [ fileMap    |-> (path :> Node(h)) @@ ensureParentDirs(s.fileMap, path),
               totalFiles |-> s.totalFiles + n,
               totalSize  |-> s.totalSize
                              + (IF Node(h).type = "file" THEN n * h.size ELSE 0) ]

\* The inner loop over one layer's headers, from header i on.  Reaching
\* maxFileCount ends the layer (break); the headers after it are not read.
RECURSIVE ReadLayer(_, _, _)
ReadLayer(s, layer, i) ==
    IF i > Len(layer) THEN s
    ELSE IF s.totalFiles >= maxFileCount THEN s
    ELSE ReadLayer(ApplyHeader(s, layer[i],
                               Min(layer[i].count, maxFileCount - s.totalFiles)),
                   layer, i + 1)

RECURSIVE ReadLayers(_, _)
ReadLayers(s, layerPaths) ==
    IF layerPaths = << >> THEN s
    ELSE ReadLayers(ReadLayer(s, Head(layerPaths), 1), Tail(layerPaths))

\* The final loop hangs a node under its parent when the parent is in the
\* map and is a directory; the returned tree is what hangs from the root.
InTree(fileMap, p) ==
    /\ p \in DOMAIN fileMap
    /\ \A k \in 0 .. (Len(p) - 1) :
          LET anc == SubSeq(p, 1, k) IN
          anc \in DOMAIN fileMap /\ fileMap[anc].type = "dir"

buildFilesystemTreeFromFiles(layerPaths) ==
    LET start == [ fileMap |-> (Root :> ImplicitDir), totalFiles |-> 0, totalSize |-> 0 ]
        s     == ReadLayers(start, layerPaths)
        tree  == { p \in DOMAIN s.fileMap : InTree(s.fileMap, p) }
    IN  [ done       |-> TRUE,
          err        |-> None,
          nodes      |-> [ p \in tree |-> s.fileMap[p] ],
          totalFiles |-> s.totalFiles,
          totalSize  |-> s.totalSize ]

(***************************************************************************)
(* readFileFromCachedLayers                                                *)
(***************************************************************************)
ReadHeader(r, h, targetPath) ==
    LET path == Clean(h.name)
        name == Base(path)
    IN  IF HasWhPrefix(name)
        THEN IF DeletedPath(path) = targetPath
             THEN [ deleted |-> TRUE, content |-> Nil, filename |-> "" ]
             ELSE r
        ELSE IF path = targetPath /\ h.typeflag # "dir"
             THEN [ deleted |-> FALSE, content |-> h.data, filename |-> Base(path) ]
             ELSE r

RECURSIVE ScanLayer(_, _, _, _)
ScanLayer(r, layer, i, targetPath) ==
    IF i > Len(layer) THEN r
    ELSE ScanLayer(ReadHeader(r, layer[i], targetPath), layer, i + 1, targetPath)

RECURSIVE ScanLayers(_, _, _)
ScanLayers(r, layerPaths, targetPath) ==
    IF layerPaths = << >> THEN r
    ELSE ScanLayers(ScanLayer(r, Head(layerPaths), 1, targetPath),
                    Tail(layerPaths), targetPath)

readFileFromCachedLayers(layerPaths, path) ==
    LET targetPath == Clean(path)
        r == ScanLayers([ deleted |-> FALSE, content |-> Nil, filename |-> "" ],
                        layerPaths, targetPath)
    IN  IF r.deleted \/ r.content = Nil
        THEN [ done |-> TRUE, path |-> path, err |-> "file not found",
               content |-> Nil, filename |-> "" ]
        ELSE [ done |-> TRUE, path |-> path, err |-> None,
               content |-> r.content, filename |-> r.filename ]

(***************************************************************************)
(* Capability cache: CheckCapabilities, canI, InvalidateCapabilitiesCache  *)
(***************************************************************************)
capabilitiesTTL == 60

Callers == 1 .. NumCallers

\* the four fields of Capabilities, each with the probe that sets it
CapNames == { "exec", "logs", "portForward", "secrets" }
ProbeOf ==
    [ exec        |-> [ verb |-> "create", resource |-> "pods/exec" ],
      logs        |-> [ verb |-> "get",    resource |-> "pods/log" ],
      portForward |-> [ verb |-> "create", resource |-> "pods/portforward" ],
      secrets     |-> [ verb |-> "list",   resource |-> "secrets" ] ]

\* What the API server can answer to the four reviews of one round.
Answers(e, l, p, s) == [ exec |-> e, logs |-> l, portForward |-> p, secrets |-> s ]
ApiAnswers ==
    { Answers("allowed", "allowed", "allowed", "allowed"),
      Answers("denied", "allowed", "denied", "denied"),
      Answers("error", "error", "error", "error"),
      Answers("allowed", "error", "denied", "allowed") }
NoClientAnswers == Answers("noclient", "noclient", "noclient", "noclient")

\* canI: false without a client, false on an API error, else Status.Allowed
canI_FailOpen(answer) == answer \in { "allowed", "error" }
canI(answer) ==
    IF answer = "noclient" THEN FALSE
    ELSE IF answer = "error" THEN FALSE
    ELSE answer = "allowed"

AllFalse == [ c \in CapNames |-> FALSE ]
NoCaps == [ present |-> FALSE, caps |-> AllFalse, answers |-> NoClientAnswers ]

NoOut == [ done |-> FALSE, caps |-> AllFalse, answers |-> NoClientAnswers, via |-> None ]
Out(caps, answers, via) ==
    [ done |-> TRUE, caps |-> caps, answers |-> answers, via |-> via ]

\* the filesystem functions are not exercised
FsQuiet ==
    /\ image = << >>
    /\ fsOut = NotYet
    /\ fileOut = NotYet

\* useEventSource at mount: useState(null), useRef(false), useRef(0),
\* useRef(null), useRef(null)
NoTopology == [ ctx |-> -1, nodes |-> 0 ]
SseInit ==
    /\ topology = NoTopology
    /\ waitingForTopologyAfterSwitch = FALSE
    /\ lastTopologyUpdateRef = 0
    /\ pendingTopologyRef = NoTopology
    /\ throttleTimeoutRef = 0
    /\ sseContext = 0

\* no image request has been made
NoAuthReq ==
    [ image |-> <<>>, pullSecrets |-> "none", anonymous |-> "ok",
      adc |-> FALSE, dockerConfig |-> FALSE, accepted |-> FALSE,
      cached |-> "no" ]
AuthInit ==
    /\ authReq = NoAuthReq
    /\ authPc = "idle"
    /\ authLog = <<>>
    /\ authKey = None
    /\ authFetch = NotYet
    /\ metaOut = NotYet

\* package helm before the release client is initialised, in a cluster
\* that allows the process no release operation
HelmQuiet ==
    /\ helmClient = FALSE
    /\ helmAccess = {}
    /\ helmCalls = {}
    /\ helmResp = NotYet

\* an application without status.operationState, no sync request yet
NoApp == [ exists |-> FALSE, operation |-> FALSE, phase |-> "" ]
SyncRequests == 1 .. NumSyncs
ArgoInit ==
    /\ argoClient = FALSE
    /\ argoApp = [ exists |-> TRUE, operation |-> FALSE, phase |-> "" ]
    /\ argoPc = [ p \in SyncRequests |-> "idle" ]
    /\ argoSeen = [ p \in SyncRequests |-> NoApp ]
    /\ argoPatches = 0
    /\ argoResp = [ p \in SyncRequests |-> 0 ]

\* no image request has been handled
ImgInit ==
    /\ imgCall = NotYet
    /\ imgResp = NotYet

\* determineHealth has not been called
HealthInit ==
    /\ healthIn = NotYet
    /\ healthOut = "none"

\* neither function is running
TarInit ==
    /\ tarFn = "none"
    /\ tarLayers = <<>>
    /\ tarIdx = 0
    /\ tarPos = 0
    /\ tarErr = FALSE
    /\ tarCancelled = FALSE
    /\ tarPc = "idle"
    /\ tarSpin = FALSE

\* a nil *grpc.ClientConn or observer client (connections are numbered from 1)
NilConn == 0

\* NewHubbleSource: every field but k8sClient has its zero value
NewHubbleSource ==
    [grpcConn |-> NilConn, observerClient |-> NilConn, localPort |-> 0,
     currentContext |-> "", relayNamespace |-> "", relayPort |-> 0,
     useTLS |-> FALSE, isConnected |-> FALSE]

NoHubResp == [op |-> "none", Connected |-> FALSE, LocalPort |-> 0, Error |-> "none"]
\* no setting has been discovered
NoFrom == [relayNamespace |-> "", relayPort |-> "", useTLS |-> ""]

NoHubCall == [contextName |-> "", h |-> NewHubbleSource, pfStarts |-> 0, grpcDials |-> 0,
              probed |-> FALSE, forwarded |-> FALSE, usedFrom |-> {}]

HubInit ==
    /\ hubble = NewHubbleSource
    /\ hubPc = "idle"
    /\ hubCall = NoHubCall
    /\ hubResp = NoHubResp
    /\ pfStarts = 0
    /\ grpcDials = 0
    /\ hubFrom = NoFrom
    /\ pfRunning = FALSE
    /\ hubCalls = 0

\* make(chan Flow, 100)
flowChCap == 100

StreamInit ==
    /\ strPc = "idle"
    /\ strClient = FALSE
    /\ strStream = "none"
    /\ strCancelled = FALSE
    /\ flowLen = 0
    /\ flowClosed = 0
    /\ strDropped = FALSE
    /\ sentAfterClose = FALSE

TermInit ==
    /\ termPc = "idle"
    /\ termSeen = NoApp
    /\ termPatch = "none"
    /\ termResp = 0

\* spec.syncPolicy.automated of an Application: absent, or a map in which
\* prune and selfHeal are true, false or missing
Automated(present, prune, selfHeal) ==
    [present |-> present, prune |-> prune, selfHeal |-> selfHeal]
NoAutomated == Automated(FALSE, "missing", "missing")
AutomatedPolicies ==
    {NoAutomated} \cup
    {Automated(TRUE, p, h) : p \in {"true", "false", "missing"},
                             h \in {"true", "false", "missing"}}

\* the radar.skyhook.io/suspended-prune and suspended-selfheal annotations
NoSuspendedAnnotations == [prune |-> "absent", selfheal |-> "absent"]

PolInit ==
    /\ polApp = [automated |-> NoAutomated, annotations |-> NoSuspendedAnnotations]
    /\ polLog = <<>>

\* the initial state of the parts outside the image inspector and the
\* capability cache
ExtInit == SseInit /\ AuthInit /\ HelmQuiet /\ ArgoInit /\ ImgInit /\ HealthInit /\ TarInit /\ HubInit /\ StreamInit /\ TermInit /\ PolInit

CapsInit ==
    /\ cachedCapabilities = NoCaps
    /\ capabilitiesExpiry = 0
    /\ capabilitiesMu = 0
    /\ clientReady = FALSE
    /\ ccPc = [ p \in Callers |-> "idle" ]
    /\ ccOut = [ p \in Callers |-> NoOut ]
    /\ probeStart = -1
    /\ lastRound = [ storedAt |-> -1, live |-> FALSE, waited |-> FALSE ]
    /\ invPc = "idle"

\* cachedCapabilities != nil && time.Now().Before(capabilitiesExpiry)
FastPathHit_ExpiryOnly == now < capabilitiesExpiry
FastPathHit == cachedCapabilities.present /\ now < capabilitiesExpiry

\* the same test again, after the write lock is taken
SecondCheckHit_Skipped == FALSE
SecondCheckHit == cachedCapabilities.present /\ now < capabilitiesExpiry

\* Lines 31-37: the read-locked fast path, then the read lock is released.
CC_FastPath(p) ==
    /\ ccPc[p] = "idle"
    /\ capabilitiesMu = 0
    /\ IF FastPathHit
       THEN /\ ccOut' = [ ccOut EXCEPT ![p] =
                            Out(cachedCapabilities.caps, cachedCapabilities.answers, "fast") ]
            /\ ccPc' = [ ccPc EXCEPT ![p] = "done" ]
       ELSE /\ ccPc' = [ ccPc EXCEPT ![p] = "refresh" ]
            /\ UNCHANGED ccOut
    /\ UNCHANGED <<now, cachedCapabilities, capabilitiesExpiry, capabilitiesMu,
                   clientReady, probeStart, lastRound, invPc, cacheVars, fsVars, extVars>>

\* Lines 40-59: the write lock is taken once it is free; the second check and
\* the client check follow; the four probe goroutines start.
CC_Lock(p) ==
    /\ ccPc[p] = "refresh"
    /\ capabilitiesMu = 0
    /\ IF SecondCheckHit
       THEN /\ ccOut' = [ ccOut EXCEPT ![p] =
                            Out(cachedCapabilities.caps, cachedCapabilities.answers, "second") ]
            /\ ccPc' = [ ccPc EXCEPT ![p] = "done" ]
            /\ UNCHANGED <<capabilitiesMu, probeStart>>
       ELSE IF ~clientReady
       THEN /\ ccOut' = [ ccOut EXCEPT ![p] = Out(AllFalse, NoClientAnswers, "noclient") ]
            /\ ccPc' = [ ccPc EXCEPT ![p] = "done" ]
            /\ UNCHANGED <<capabilitiesMu, probeStart>>
       ELSE /\ ccPc' = [ ccPc EXCEPT ![p] = "probing" ]
            /\ capabilitiesMu' = p
            /\ probeStart' = now
            /\ UNCHANGED ccOut
    /\ UNCHANGED <<now, cachedCapabilities, capabilitiesExpiry, clientReady,
                   lastRound, invPc, cacheVars, fsVars, extVars>>

\* Lines 61-95: the four probes answer, the result is built, cached with a
\* fresh expiry and returned; the deferred unlock runs.
CC_Store(p) ==
    /\ ccPc[p] = "probing"
    /\ \E answers \in (IF clientReady THEN ApiAnswers ELSE { NoClientAnswers }) :
          LET caps == [ c \in CapNames |-> canI(answers[c]) ] IN
          /\ cachedCapabilities' = [ present |-> TRUE, caps |-> caps, answers |-> answers ]
          /\ ccOut' = [ ccOut EXCEPT ![p] = Out(caps, answers, "probed") ]
    /\ capabilitiesExpiry' = now + capabilitiesTTL
    /\ capabilitiesMu' = 0
    /\ ccPc' = [ ccPc EXCEPT ![p] = "done" ]
    /\ probeStart' = -1
    /\ lastRound' = [ storedAt |-> now, live |-> TRUE, waited |-> FALSE ]
    /\ UNCHANGED <<now, clientReady, invPc, cacheVars, fsVars, extVars>>

\* the caller has its answer and may call again
CC_Return(p) ==
    /\ ccPc[p] = "done"
    /\ ccPc' = [ ccPc EXCEPT ![p] = "idle" ]
    /\ ccOut' = [ ccOut EXCEPT ![p] = NoOut ]
    /\ UNCHANGED <<now, cachedCapabilities, capabilitiesExpiry, capabilitiesMu,
                   clientReady, probeStart, lastRound, invPc, cacheVars, fsVars, extVars>>

InvalidateCapabilitiesCache ==
    /\ capabilitiesMu = 0
    /\ cachedCapabilities' = NoCaps
    /\ lastRound' = [ lastRound EXCEPT !.live = FALSE, !.waited = (invPc = "blocked") ]
    /\ invPc' = "idle"
    /\ UNCHANGED <<now, capabilitiesExpiry, capabilitiesMu, clientReady, ccPc, ccOut,
                   probeStart, cacheVars, fsVars, extVars>>

\* InvalidateCapabilitiesCache called while a refresh holds the write lock:
\* the call waits at capabilitiesMu.Lock()
InvalidateBlocked ==
    /\ capabilitiesMu # 0
    /\ invPc = "idle"
    /\ invPc' = "blocked"
    /\ UNCHANGED <<now, cachedCapabilities, capabilitiesExpiry, capabilitiesMu,
                   clientReady, ccPc, ccOut, probeStart, lastRound, cacheVars, fsVars, extVars>>

\* the cluster client is set up, or torn down by a context switch
ClientChange ==
    /\ clientReady' = ~clientReady
    /\ UNCHANGED <<now, cachedCapabilities, capabilitiesExpiry, capabilitiesMu,
                   ccPc, ccOut, probeStart, lastRound, invPc, cacheVars, fsVars, extVars>>

CapsTick ==
    /\ now + (capabilitiesTTL \div 2) <= MaxCapsTime
    /\ now' = now + (capabilitiesTTL \div 2)
    /\ UNCHANGED <<capsVars, cacheVars, fsVars, extVars>>

CapsNext ==
    \/ \E p \in Callers : CC_FastPath(p)
    \/ \E p \in Callers : CC_Lock(p)
    \/ \E p \in Callers : CC_Store(p)
    \/ \E p \in Callers : CC_Return(p)
    \/ InvalidateCapabilitiesCache
    \/ InvalidateBlocked
    \/ ClientChange
    \/ CapsTick

(***************************************************************************)
(* Image layer cache: getCachedLayers, cacheLayers, evictOldEntries,       *)
(* cleanupExpired and the three requests that use them                     *)
(***************************************************************************)
layerCacheTTL == 300
maxCachedImages == 5

\* one image more than the cache holds
Digests == 1 .. (maxCachedImages + 1)
Requests == 1 .. NumRequests

\* img.Layers(): the number of layers of the image with digest d
LayerCount(d) == 1 + (d % 2)

\* <cacheDir>/<key>/layers/layer-<idx>.tar for idx = 0 .. n-1
LayerPaths(d, n) == [ i \in 1 .. n |-> <<d, i - 1>> ]

\* metadata.json (ok: the file is there and parses)
NoMeta == [ ok |-> FALSE, digest |-> 0, layerCount |-> 0, cachedAt |-> 0 ]
\* <cacheDir>/<key>: whether the directory exists, the layer files in it
NoEntry == [ dir |-> FALSE, layers |-> {}, meta |-> NoMeta ]

Miss == [ hit |-> FALSE, paths |-> << >>, meta |-> NoMeta ]

getCachedLayers(dirs, t, d) ==
    LET e == dirs[d] IN
    IF ~e.meta.ok THEN Miss
    ELSE IF t - e.meta.cachedAt >= layerCacheTTL THEN Miss
    ELSE IF \E idx \in 0 .. (e.meta.layerCount - 1) : idx \notin e.layers THEN Miss
    ELSE [ hit |-> TRUE, paths |-> LayerPaths(d, e.meta.layerCount), meta |-> e.meta ]

\* os.RemoveAll of the directories of the digests in S
RemoveAll(dirs, S) == [ d \in DOMAIN dirs |-> IF d \in S THEN NoEntry ELSE dirs[d] ]

\* evictOldEntries: the directories with parseable metadata are counted; at
\* the limit the first len - max + 1 in cachedAt order go.  The sets it can
\* remove (entries with equal cachedAt sort in either order).
Cached(dirs) == { d \in DOMAIN dirs : dirs[d].dir /\ dirs[d].meta.ok }

evictOldEntries_AboveLimit(dirs) ==
    LET cached == Cached(dirs) IN
    IF Cardinality(cached) > maxCachedImages
    THEN { V \in SUBSET cached :
             /\ Cardinality(V) = Cardinality(cached) - maxCachedImages
             /\ \A v \in V, w \in cached \ V :
                   dirs[v].meta.cachedAt <= dirs[w].meta.cachedAt }
    ELSE { {} }

evictOldEntries(dirs) ==
    LET cached == Cached(dirs) IN
    IF Cardinality(cached) >= maxCachedImages
    THEN { V \in SUBSET cached :
             /\ Cardinality(V) = Cardinality(cached) - maxCachedImages + 1
             /\ \A v \in V, w \in cached \ V :
                   dirs[v].meta.cachedAt <= dirs[w].meta.cachedAt }
    ELSE { {} }

\* How a cacheLayers call can go: img.Layers() fails; the context is found
\* cancelled before layer `at` is saved; saving layer `at` fails; writing
\* metadata.json fails; or all succeeds.
Outcome(k, i) == [ kind |-> k, at |-> i ]
Outcomes(n) ==
    { Outcome("ok", n), Outcome("layersErr", 0), Outcome("metaErr", n) }
    \cup { Outcome(k, i) : k \in { "cancelled", "saveErr" }, i \in 0 .. (n - 1) }

\* the loop over the layers: layer idx is saved unless the call ends there
RECURSIVE SaveLayers(_, _, _, _)
SaveLayers(e, idx, n, outcome) ==
    IF idx = n THEN e
    ELSE IF outcome.kind \in { "cancelled", "saveErr" } /\ outcome.at = idx THEN NoEntry
    ELSE SaveLayers([ e EXCEPT !.layers = @ \cup { idx } ], idx + 1, n, outcome)

\* cacheLayers from the eviction on, for the victims evictOldEntries took
cacheLayers(dirs, t, d, victims, outcome) ==
    LET evicted == RemoveAll(dirs, victims)
        made    == [ evicted EXCEPT ![d].dir = TRUE ]
        n       == LayerCount(d)
        saved   == SaveLayers(made[d], 0, n, outcome)
    IN  IF outcome.kind = "layersErr" THEN made
        ELSE IF ~saved.dir THEN [ made EXCEPT ![d] = NoEntry ]
        ELSE IF outcome.kind = "metaErr" THEN [ made EXCEPT ![d] = NoEntry ]
        ELSE [ made EXCEPT ![d] =
                 [ saved EXCEPT !.meta = [ ok |-> TRUE, digest |-> d,
                                           layerCount |-> n, cachedAt |-> t ] ] ]

\* cleanupExpired: a directory goes when its metadata cannot be read or
\* parsed, or when now.Sub(meta.CachedAt) >= layerCacheTTL
cleanupExpired_StrictlyOlder(dirs, t) ==
    [ d \in DOMAIN dirs |->
        IF dirs[d].dir /\ (~dirs[d].meta.ok \/ t - dirs[d].meta.cachedAt > layerCacheTTL)
        THEN NoEntry ELSE dirs[d] ]

cleanupExpired(dirs, t) ==
    [ d \in DOMAIN dirs |->
        IF dirs[d].dir /\ (~dirs[d].meta.ok \/ t - dirs[d].meta.cachedAt >= layerCacheTTL)
        THEN NoEntry ELSE dirs[d] ]

NoReqOut == [ done |-> FALSE, err |-> None, opened |-> {} ]
NoLog == [ op |-> None, removed |-> {}, turn |-> FALSE ]
Log(op, removed) == [ op |-> op, removed |-> removed, turn |-> ~cacheLog.turn ]

\* NewInspector: cleanCacheDir leaves an empty cache directory
CacheInit ==
    /\ cacheDir = [ d \in Digests |-> NoEntry ]
    /\ reqPc = [ p \in Requests |-> "idle" ]
    /\ reqDigest = [ p \in Requests |-> 0 ]
    /\ reqHeld = [ p \in Requests |-> Miss ]
    /\ reqOut = [ p \in Requests |-> NoReqOut ]
    /\ cacheLog = NoLog

\* A cacheLayers call for digest d that ends in one of `outcomes`, with what
\* it logs as evicted.
Admit(d, outcomes) ==
    \E victims \in evictOldEntries(cacheDir) :
        /\ cacheLog' = Log("cacheLayers", victims)
        /\ \E outcome \in outcomes :
              cacheDir' = cacheLayers(cacheDir, now, d, victims, outcome)

\* with a cancelled context cacheLayers ends at img.Layers() or at the first
\* pass of its loop
CancelledOutcomes == { Outcome("layersErr", 0), Outcome("cancelled", 0) }

(***************************************************************************)
(* A request served while no other is in flight runs from its lookup to    *)
(* its return.  GetFileContent's use of the cache is Inspect's without the *)
(* second branch; GetMetadata only looks up.                               *)
(***************************************************************************)
\* Inspect: on a hit the tree is built from the cached layers; when that
\* fails (the context was cancelled) or on a miss, cacheLayers runs.
Inspect(d) ==
    /\ \A p \in Requests : reqPc[p] = "idle"
    /\ IF getCachedLayers(cacheDir, now, d).hit
       THEN \/ UNCHANGED <<cacheDir, cacheLog>>
            \/ Admit(d, CancelledOutcomes)
       ELSE Admit(d, Outcomes(LayerCount(d)))
    /\ UNCHANGED <<now, reqPc, reqDigest, reqHeld, reqOut, capsVars, fsVars, extVars>>

(***************************************************************************)
(* The requests, concurrently: each step is what a request does between    *)
(* two points where others can run (the cache lock is held from            *)
(* getCachedLayers' and cacheLayers' first line to their return).          *)
(***************************************************************************)
\* Inspect / GetFileContent / GetMetadata up to the cache lookup: the image
\* is fetched, its digest is d, getCachedLayers runs under the read lock.
\* On a miss Inspect and GetFileContent go on to cacheLayers; GetMetadata
\* returns the registry's metadata.
Lookup(p, d) ==
    /\ reqPc[p] = "idle"
    /\ LET r == getCachedLayers(cacheDir, now, d) IN
       /\ reqDigest' = [ reqDigest EXCEPT ![p] = d ]
       /\ reqHeld' = [ reqHeld EXCEPT ![p] = r ]
       /\ IF r.hit
          THEN /\ reqPc' = [ reqPc EXCEPT ![p] = "read" ]
               /\ UNCHANGED reqOut
          ELSE \/ /\ reqPc' = [ reqPc EXCEPT ![p] = "cache" ]
                  /\ UNCHANGED reqOut
               \/ /\ reqPc' = [ reqPc EXCEPT ![p] = "done" ]
                  /\ reqOut' = [ reqOut EXCEPT ![p] =
                                   [ done |-> TRUE, err |-> None, opened |-> {} ] ]
    /\ UNCHANGED <<now, cacheDir, cacheLog, capsVars, fsVars, extVars>>

\* cacheLayers under the write lock, from a caller whose lookup missed
\* ("cache") or from Inspect after reading the cached layers failed on a
\* cancelled context ("recache").
CacheLayers(p) ==
    /\ reqPc[p] \in { "cache", "recache" }
    /\ LET d == reqDigest[p] IN
       \E outcome \in Outcomes(LayerCount(d)) :
          /\ reqPc[p] = "recache" => outcome \in CancelledOutcomes
          /\ Admit(d, { outcome })
          /\ IF outcome.kind = "ok"
             THEN /\ reqPc' = [ reqPc EXCEPT ![p] = "readNew" ]
                  /\ reqHeld' = [ reqHeld EXCEPT ![p] =
                                    [ hit |-> TRUE,
                                      paths |-> LayerPaths(d, LayerCount(d)),
                                      meta |-> cacheDir'[d].meta ] ]
                  /\ UNCHANGED reqOut
             ELSE /\ reqPc' = [ reqPc EXCEPT ![p] = "done" ]
                  /\ reqHeld' = [ reqHeld EXCEPT ![p] = Miss ]
                  /\ reqOut' = [ reqOut EXCEPT ![p] =
                                   [ done |-> TRUE, err |-> outcome.kind, opened |-> {} ] ]
    /\ UNCHANGED <<now, reqDigest, capsVars, fsVars, extVars>>

\* buildFilesystemFromCache / readFileFromCachedLayers over the held layer
\* paths, with no lock held: the layer files that can be opened are read, the
\* others are skipped.  Inspect, after a cache hit, falls through to
\* cacheLayers when the context is cancelled while it reads.
ReadLayerFiles(p) ==
    /\ reqPc[p] \in { "read", "readNew" }
    /\ \/ /\ reqPc' = [ reqPc EXCEPT ![p] = "done" ]
          /\ reqOut' = [ reqOut EXCEPT ![p] =
                [ done |-> TRUE, err |-> None,
                  opened |-> { i \in 1 .. Len(reqHeld[p].paths) :
                                 (i - 1) \in cacheDir[reqDigest[p]].layers } ] ]
       \/ /\ reqPc[p] = "read"
          /\ reqPc' = [ reqPc EXCEPT ![p] = "recache" ]
          /\ UNCHANGED reqOut
    /\ UNCHANGED <<now, cacheDir, reqDigest, reqHeld, cacheLog, capsVars, fsVars, extVars>>

ReqReturn(p) ==
    /\ reqPc[p] = "done"
    /\ reqPc' = [ reqPc EXCEPT ![p] = "idle" ]
    /\ reqDigest' = [ reqDigest EXCEPT ![p] = 0 ]
    /\ reqHeld' = [ reqHeld EXCEPT ![p] = Miss ]
    /\ reqOut' = [ reqOut EXCEPT ![p] = NoReqOut ]
    /\ UNCHANGED <<now, cacheDir, cacheLog, capsVars, fsVars, extVars>>

\* one run of the sweeper (cleanupLoop calls it on every tick of its ticker)
Sweep ==
    /\ cacheDir' = cleanupExpired(cacheDir, now)
    /\ cacheLog' = Log("cleanupExpired",
                       { d \in Digests : cacheDir[d].dir /\ ~cacheDir'[d].dir })
    /\ UNCHANGED <<now, reqPc, reqDigest, reqHeld, reqOut, capsVars, fsVars, extVars>>

CacheTick ==
    /\ now + (layerCacheTTL \div 2) <= MaxCacheTime
    /\ now' = now + (layerCacheTTL \div 2)
    /\ UNCHANGED <<cacheVars, capsVars, fsVars, extVars>>

\* the images that concurrent requests ask for
RaceDigests == { 1, 2 }

CacheSpecInit == now = 0 /\ CapsInit /\ CacheInit /\ FsQuiet /\ ExtInit

\* requests one at a time, against a cache that can fill up
CacheNext ==
    \/ \E d \in Digests : Inspect(d)
    \/ Sweep
    \/ CacheTick

SpecCache == CacheSpecInit /\ [][CacheNext]_vars

\* concurrent requests
RaceNext ==
    \/ \E p \in Requests, d \in RaceDigests : Lookup(p, d)
    \/ \E p \in Requests : CacheLayers(p)
    \/ \E p \in Requests : ReadLayerFiles(p)
    \/ \E p \in Requests : ReqReturn(p)
    \/ Sweep
    \/ CacheTick

SpecRace == CacheSpecInit /\ [][RaceNext]_vars

(***************************************************************************)
(* Specification of the two functions: the image is drawn at the start,    *)
(* each function is applied to it.                                         *)
(***************************************************************************)
FsInit ==
    /\ now = 0
    /\ CapsInit
    /\ CacheInit
    /\ ExtInit
    /\ image \in Images(MaxEntries)
    /\ fsOut = NotYet
    /\ fileOut = NotYet

BuildTree ==
    /\ ~fsOut.done
    /\ fsOut' = buildFilesystemTreeFromFiles(image)
    /\ UNCHANGED <<image, fileOut, now, capsVars, cacheVars, extVars>>

GetFile ==
    /\ ~fileOut.done
    /\ \E path \in FilePaths : fileOut' = readFileFromCachedLayers(image, path)
    /\ UNCHANGED <<image, fsOut, now, capsVars, cacheVars, extVars>>

FsNext == BuildTree \/ GetFile

SpecFS == FsInit /\ [][FsNext]_vars

(***************************************************************************)
(* What the layers say, read off the headers in apply order (independent   *)
(* of the two functions above).                                            *)
(***************************************************************************)
Headers == Flatten(image)
HdrPath(i) == Clean(Headers[i].name)
IsWhiteout(i) == HasWhPrefix(Base(HdrPath(i)))

\* header i is a whiteout of p or of a directory above p
WhitesOut(i, p) == IsWhiteout(i) /\ IsAtOrAbove(DeletedPath(HdrPath(i)), p)

\* header i is an entry for p itself
PutsAt(i, p) == ~IsWhiteout(i) /\ HdrPath(i) = p

\* header i is an entry for p or for a path beneath p (which brings p back
\* as its parent directory)
AddsAgain(i, p) == ~IsWhiteout(i) /\ IsAtOrAbove(p, HdrPath(i))

\* C1: get_file never returns content for a path that is whited out in the
\* final image: when the last header that affects the path (an entry for the
\* path, or a whiteout of the path or of a directory above it) is a whiteout,
\* the result is the "file not found" error.
C1_WhitedOutNotReturned ==
    fileOut.done =>
        LET t == Clean(fileOut.path) IN
        \A i \in 1 .. Len(Headers) :
            ( /\ WhitesOut(i, t)
              /\ \A j \in (i + 1) .. Len(Headers) : ~(WhitesOut(j, t) \/ PutsAt(j, t)) )
            => fileOut.err = "file not found"

\* C2: a path removed by a .wh.<base> header, and every path beneath it, is
\* absent from the returned tree unless a header later in apply order adds
\* it again.
C2_WhitedOutAbsentFromTree ==
    (fsOut.done /\ fsOut.err = None) =>
        \A q \in DOMAIN fsOut.nodes :
            \A i \in 1 .. Len(Headers) :
                WhitesOut(i, q) =>
                    \E j \in (i + 1) .. Len(Headers) : AddsAgain(j, q)


CapsSpecInit == now = 0 /\ CapsInit /\ CacheInit /\ FsQuiet /\ ExtInit
SpecCaps == CapsSpecInit /\ [][CapsNext]_vars

\* C3: capabilities are fail-closed: in every value CheckCapabilities returns,
\* fresh or cached, a capability is true only if its own probe in the round
\* that produced the value answered allowed.
C3_FailClosed ==
    \A p \in Callers :
        ccOut[p].done =>
            \A c \in CapNames : ccOut[p].caps[c] => ccOut[p].answers[c] = "allowed"

\* a cached value, produced by a round with an API error and a denial, was
\* returned with its allowed capabilities true and the others false
C3_Witness ==
    \E p \in Callers :
        /\ ccOut[p].done
        /\ ccOut[p].via \in { "fast", "second" }
        /\ ccOut[p].answers = Answers("allowed", "error", "denied", "allowed")
        /\ ccOut[p].caps["exec"] /\ ~ccOut[p].caps["logs"]

\* C4: with no invalidation in between, no probe round begins inside the
\* 60-second validity window of the round stored before it; of the callers
\* that found the cache empty or expired one probes at a time; and one that
\* gets the write lock while the stored value is valid returns that value
\* and starts no probes.
C4_OneRoundPerWindow ==
    /\ [](\A p \in Callers :
            (ccPc[p] = "probing" /\ lastRound.live)
                => probeStart >= lastRound.storedAt + capabilitiesTTL)
    /\ [](Cardinality({ p \in Callers : ccPc[p] = "probing" }) <= 1)
    /\ [][\A p \in Callers :
            (/\ ccPc[p] = "refresh" /\ ccPc'[p] # "refresh"
             /\ cachedCapabilities.present /\ now < capabilitiesExpiry)
            => /\ ccPc'[p] = "done"
               /\ ccOut'[p].caps = cachedCapabilities.caps
               /\ probeStart' = probeStart]_vars

\* two callers missed the fast path; one probed and stored, the other got the
\* stored value from the second check
C4_Witness ==
    \E p, q \in Callers :
        /\ p # q
        /\ ccOut[p].done /\ ccOut[p].via = "second"
        /\ ccOut[q].done /\ ccOut[q].via = "probed"

(***************************************************************************)
(* Claims about the layer cache                                            *)
(***************************************************************************)
\* a step of request p that is its cacheLayers call
IsCacheLayersOf(p) == reqPc[p] \in { "cache", "recache" } /\ reqPc'[p] # reqPc[p]
\* a step that is a cacheLayers call / a sweeper run
IsCacheLayers == cacheLog'.turn # cacheLog.turn /\ cacheLog'.op = "cacheLayers"
IsSweep == cacheLog'.turn # cacheLog.turn /\ cacheLog'.op = "cleanupExpired"

\* C5: cacheLayers checks again under the write lock: a caller whose lookup
\* missed and who gets the write lock after another caller admitted the same
\* digest takes the admitted entry as it is, rewriting nothing.
C5_SecondCheckUnderWriteLock ==
    [][\A p \in Requests :
          (/\ reqPc[p] = "cache" /\ reqPc'[p] # "cache"
           /\ getCachedLayers(cacheDir, now, reqDigest[p]).hit)
          => /\ cacheDir' = cacheDir
             /\ reqHeld'[p] = getCachedLayers(cacheDir, now, reqDigest[p])]_vars

\* the on-disk check of getCachedLayers fails for the directory of digest d
FailsOnDiskCheck(d) ==
    /\ cacheDir[d].dir
    /\ \/ ~cacheDir[d].meta.ok
       \/ \E idx \in 0 .. (cacheDir[d].meta.layerCount - 1) : idx \notin cacheDir[d].layers

\* C6: a lookup that finds the on-disk check failing for an entry (no
\* readable metadata.json, or a layer file missing) removes the entry's
\* directory before it returns, and does not return a hit.
C6_LookupEvictsBrokenEntry ==
    [][\A p \in Requests :
          (/\ reqPc[p] = "idle" /\ reqPc'[p] # "idle"
           /\ FailsOnDiskCheck(reqDigest'[p]))
          => /\ ~cacheDir'[reqDigest'[p]].dir
             /\ ~reqHeld'[p].hit]_vars

\* C7: admission is all-or-nothing: a directory with a metadata.json holds
\* exactly the layer files 0 .. layer_count-1, and a cacheLayers call that
\* fails or is cancelled leaves no directory for its digest.
C7_AdmissionAllOrNothing ==
    /\ [](\A d \in Digests :
            cacheDir[d].meta.ok
                => /\ cacheDir[d].dir
                   /\ cacheDir[d].layers = 0 .. (cacheDir[d].meta.layerCount - 1))
    /\ [][\A p \in Requests :
            (IsCacheLayersOf(p) /\ reqPc'[p] = "done")
                => ~cacheDir'[reqDigest[p]].dir]_vars

\* C8: what a successful cacheLayers returned is what getCachedLayers
\* returns for the digest from then on, a hit with the same paths and
\* metadata, for as long as the entry is younger than the TTL and capacity
\* eviction has not taken it; from the moment its age reaches the TTL
\* getCachedLayers misses.
C8_RoundTripUntilTTL ==
    /\ [][\A p \in Requests :
            (IsCacheLayersOf(p) /\ reqPc'[p] = "readNew")
                => getCachedLayers(cacheDir', now', reqDigest[p]) = reqHeld'[p]]_vars
    /\ [][\A d \in Digests :
            LET r == getCachedLayers(cacheDir, now, d) IN
            (r.hit /\ ~(IsCacheLayers /\ d \in cacheLog'.removed))
                => IF now' - r.meta.cachedAt < layerCacheTTL
                   THEN getCachedLayers(cacheDir', now', d) = r
                   ELSE ~getCachedLayers(cacheDir', now', d).hit]_vars
    /\ [](\A d \in Digests :
            (cacheDir[d].meta.ok /\ now - cacheDir[d].meta.cachedAt >= layerCacheTTL)
                => ~getCachedLayers(cacheDir, now, d).hit)

\* C26: after any sequence of admissions, sweeper runs and lookups, the cache
\* directory holds at most 5 entries with valid metadata whenever the cache
\* lock is free (a cacheLayers call holds the lock from its first line to
\* its return).
C26_AtMostFiveCached == Cardinality(Cached(cacheDir)) <= maxCachedImages

\* five entries are cached and the last admission evicted one to make room
C26_Witness ==
    /\ Cardinality(Cached(cacheDir)) = maxCachedImages
    /\ cacheLog.op = "cacheLayers"
    /\ cacheLog.removed # {}

\* C24: a request never returns a result computed from an incomplete layer
\* set: when a layer file that getCachedLayers or cacheLayers reported has
\* been removed by the sweeper, by capacity eviction or by a re-admission
\* before it is read, the call fails or downloads again; it does not return
\* what the remaining layers give.
C24_NoPartialLayerSet ==
    \A p \in Requests :
        (reqOut[p].done /\ reqOut[p].err = None)
            => reqOut[p].opened = 1 .. Len(reqHeld[p].paths)

\* C9: a cacheLayers call removes nothing for capacity while fewer than 5
\* entries are cached; with 5 cached it removes one, with more it removes
\* down to 4; what it removes is never newer than what it keeps; and apart
\* from the digest it admits, no other directory changes.
C9_EvictionAtCapacity ==
    [][IsCacheLayers =>
          LET cached  == Cached(cacheDir)
              n       == Cardinality(cached)
              removed == cacheLog'.removed
          IN  /\ removed \subseteq cached
              /\ n < maxCachedImages => removed = {}
              /\ n = maxCachedImages => Cardinality(removed) = 1
              /\ n >= maxCachedImages => Cardinality(removed) = n - maxCachedImages + 1
              /\ \A v \in removed, w \in cached \ removed :
                    cacheDir[v].meta.cachedAt <= cacheDir[w].meta.cachedAt
              /\ \E d \in Digests : \A e \in Digests \ { d } :
                    cacheDir'[e] = IF e \in removed THEN NoEntry ELSE cacheDir[e]]_vars

\* five images were cached, one of them aged and one fresh; a sixth was
\* admitted and the one entry removed for it is gone, the fresh one is kept
C9_Witness ==
    /\ cacheLog.op = "cacheLayers"
    /\ Cardinality(cacheLog.removed) = 1
    /\ \A v \in cacheLog.removed : ~cacheDir[v].dir
    /\ Cardinality(Cached(cacheDir)) = maxCachedImages
    /\ \E d, e \in Cached(cacheDir) : cacheDir[d].meta.cachedAt < cacheDir[e].meta.cachedAt

\* C10: a sweeper run removes every directory whose cached_at is 5 minutes
\* old or older and every directory without readable metadata, and leaves
\* every other directory as it was.
C10_SweeperFrame ==
    [][IsSweep =>
          \A d \in Digests :
             IF cacheDir[d].dir /\ ~cacheDir[d].meta.ok
             THEN ~cacheDir'[d].dir
             ELSE IF cacheDir[d].dir /\ now - cacheDir[d].meta.cachedAt >= layerCacheTTL
             THEN ~cacheDir'[d].dir
             ELSE cacheDir'[d] = cacheDir[d]]_vars

\* the sweeper ran and removed a directory, and kept an entry that has aged
\* but not to the TTL
C10_Witness ==
    /\ cacheLog.op = "cleanupExpired"
    /\ cacheLog.removed # {}
    /\ \A v \in cacheLog.removed : ~cacheDir[v].dir
    /\ \E d \in Digests :
          /\ cacheDir[d].meta.ok
          /\ cacheDir[d].meta.cachedAt < now
          /\ now - cacheDir[d].meta.cachedAt < layerCacheTTL

RECURSIVE EntriesOf(_)
EntriesOf(hs) ==
    IF hs = << >> THEN 0
    ELSE (IF HasWhPrefix(Base(Clean(Head(hs).name))) \/ Clean(Head(hs).name) = Root
          THEN 0 ELSE Head(hs).count) + EntriesOf(Tail(hs))
RECURSIVE SizeOf(_)
SizeOf(hs) ==
    IF hs = << >> THEN 0
    ELSE (IF HasWhPrefix(Base(Clean(Head(hs).name))) \/ Head(hs).typeflag # "reg"
          THEN 0 ELSE Head(hs).count * Head(hs).size) + SizeOf(Tail(hs))

\* C13: for an image whose layers add up to more than 50 000 entries or more
\* than 5 GiB of file size, reconstruction returns an error, never a tree.
C13_CeilingsAbort ==
    (/\ fsOut.done
     /\ \/ EntriesOf(Flatten(image)) > maxFileCount
        \/ SizeOf(Flatten(image)) > maxTotalSize)
    => fsOut.err # None

\* the bytes of the regular files among the nodes at the paths in S
RECURSIVE FileBytes(_, _)
FileBytes(nodes, S) ==
    IF S = {} THEN 0
    ELSE LET p == CHOOSE q \in S : TRUE
         IN  (IF nodes[p].type = "file" THEN nodes[p].size ELSE 0)
             + FileBytes(nodes, S \ {p})

\* C27: the totals returned with a reconstructed filesystem agree with its
\* tree: TotalFiles is the number of nodes reachable from the root, the root
\* not counted, and TotalSize is the sum of the sizes of the regular files in
\* the tree, also when layers overwrite or white out entries of lower layers.
C27_TotalsAgreeWithTree ==
    (fsOut.done /\ fsOut.err = None) =>
        /\ fsOut.totalFiles = Cardinality(DOMAIN fsOut.nodes \ {Root})
        /\ fsOut.totalSize = FileBytes(fsOut.nodes, DOMAIN fsOut.nodes)

NameEntries ==
    { Hdr(<<"a">>, "dir", 0, 0, 1),
      Hdr(<<"a">>, "reg", 1, 6, 1),
      Hdr(<<"a", "b">>, "reg", 2, 2, 1),
      Hdr(<<".", "b">>, "reg", 1, 3, 1),
      Hdr(<<"a", ".wh..wh..opq">>, "reg", 0, 0, 1),
      Hdr(<<"a", "..", "b">>, "reg", 1, 5, 1),
      Hdr(<<"a", "..", ".wh.b">>, "reg", 0, 0, 1) }

FsNamesInit ==
    /\ now = 0
    /\ CapsInit
    /\ CacheInit
    /\ ExtInit
    /\ image \in ImagesOver(NameEntries, MaxEntries)
    /\ fsOut = NotYet
    /\ fileOut = NotYet

SpecFSNames == FsNamesInit /\ [][FsNext]_vars

\* the last header that is an entry for p
LastPut(p) ==
    CHOOSE j \in 1 .. Len(Headers) :
        PutsAt(j, p) /\ \A k \in (j + 1) .. Len(Headers) : ~PutsAt(k, p)

\* p is put by some header, and after its last entry no whiteout removes it;
\* no name of the image has a ".." component or is an opaque marker
SettledPath(p) ==
    /\ p # Root
    /\ \E j \in 1 .. Len(Headers) : PutsAt(j, p)
    /\ \A k \in (LastPut(p) + 1) .. Len(Headers) : ~WhitesOut(k, p)
    /\ \A k \in 1 .. Len(Headers) :
          ~HasWhPrefix(TrimWh[IF IsWhiteout(k) THEN Base(HdrPath(k)) ELSE ".wh.a"])
    /\ \A k \in 1 .. Len(Headers) : \A n \in 1 .. Len(Headers[k].name) :
          Headers[k].name[n] # ".."

\* C15: the later layer wins in both views: for a path with entries in the
\* image, the tree's node for it is the node of its last entry, and get_file
\* returns the bytes of that last entry (nothing when it is a directory).
C15_LaterLayerWins ==
    /\ (fsOut.done /\ fsOut.err = None) =>
          \A p \in DOMAIN fsOut.nodes :
              SettledPath(p) => fsOut.nodes[p] = Node(Headers[LastPut(p)])
    /\ fileOut.done =>
          LET p == Clean(fileOut.path) IN
          SettledPath(p) =>
              IF Headers[LastPut(p)].typeflag = "dir"
              THEN fileOut.err = "file not found"
              ELSE fileOut.err = None /\ fileOut.content = Headers[LastPut(p)].data

\* the layer (1 = bottom) that holds header i of the image
RECURSIVE LayerIndex(_, _, _)
LayerIndex(ls, k, i) ==
    IF i <= Len(ls[k]) THEN k ELSE LayerIndex(ls, k + 1, i - Len(ls[k]))

\* header i is an opaque whiteout .wh..wh..opq; the directory it stands in
IsOpaque(i) == Base(HdrPath(i)) = ".wh..wh..opq"
OpaqueDir(i) == Dir(HdrPath(i))

\* C14: an opaque whiteout in directory D of layer k removes what the layers
\* below k put under D: a path under D that is in the returned tree was put
\* there (itself or something beneath it) by layer k or by a layer above it.
C14_OpaqueWhiteoutClears ==
    (fsOut.done /\ fsOut.err = None) =>
        \A q \in DOMAIN fsOut.nodes :
            \A i \in 1 .. Len(Headers) :
                (IsOpaque(i) /\ HasPathPrefix(q, OpaqueDir(i)))
                    => \E j \in 1 .. Len(Headers) :
                          /\ AddsAgain(j, q)
                          /\ ~IsOpaque(j)
                          /\ LayerIndex(image, 1, j) >= LayerIndex(image, 1, i)

\* an entry name with a ".." component
HasDotDot(h) == \E k \in 1 .. Len(h.name) : h.name[k] = ".."

\* the image without the entries that have a ".." component
WithoutDotDot(ls) ==
    [ k \in 1 .. Len(ls) |-> SelectSeq(ls[k], LAMBDA h : ~HasDotDot(h)) ]

\* C16: an entry whose name has a ".." component is rejected: the tree and
\* the result of get_file are what they are for the image without such
\* entries (a leading "./" being stripped from the names of the others).
C16_DotDotRejected ==
    /\ fsOut.done
          => fsOut.nodes = buildFilesystemTreeFromFiles(WithoutDotDot(image)).nodes
    /\ fileOut.done
          => fileOut = readFileFromCachedLayers(WithoutDotDot(image), fileOut.path)

(***************************************************************************)
(* useEventSource: the topology and context_changed listeners and the      *)
(* throttle timer                                                          *)
(***************************************************************************)
getTopologyThrottleMs(nodeCount) ==
    IF nodeCount < 100 THEN 500
    ELSE IF nodeCount < 300 THEN 1000
    ELSE IF nodeCount < 500 THEN 2000
    ELSE 3000

\* data.nodes.length of the snapshots the server sends
NodeCounts == { 50, 150 }

sseRest == <<capsVars, cacheVars, fsVars, authVars, helmVars, argoVars, imgVars, healthVars, tarVars, hubVars, strVars, termVars, polVars>>

\* the 'topology' listener; the snapshot is of the server's current context
OnTopology(nodeCount) ==
    LET data == [ ctx |-> sseContext, nodes |-> nodeCount ]
        timeSinceLastUpdate == now - lastTopologyUpdateRef
        throttleMs == getTopologyThrottleMs(nodeCount)
    IN  /\ IF waitingForTopologyAfterSwitch
           THEN /\ waitingForTopologyAfterSwitch' = FALSE
                /\ lastTopologyUpdateRef' = now
                /\ topology' = data
                /\ UNCHANGED <<pendingTopologyRef, throttleTimeoutRef>>
           ELSE IF timeSinceLastUpdate < throttleMs
           THEN /\ pendingTopologyRef' = data
                /\ throttleTimeoutRef' =
                      IF throttleTimeoutRef = 0
                      THEN now + (throttleMs - timeSinceLastUpdate)
                      ELSE throttleTimeoutRef
                /\ UNCHANGED <<topology, waitingForTopologyAfterSwitch,
                               lastTopologyUpdateRef>>
           ELSE /\ lastTopologyUpdateRef' = now
                /\ pendingTopologyRef' = NoTopology
                /\ topology' = data
                /\ UNCHANGED <<waitingForTopologyAfterSwitch, throttleTimeoutRef>>
        /\ UNCHANGED <<now, sseContext, sseRest>>

\* the callback of the throttle's setTimeout
ThrottleTimeout ==
    /\ throttleTimeoutRef # 0
    /\ now >= throttleTimeoutRef
    /\ throttleTimeoutRef' = 0
    /\ IF pendingTopologyRef # NoTopology
       THEN /\ lastTopologyUpdateRef' = now
            /\ topology' = pendingTopologyRef
            /\ pendingTopologyRef' = NoTopology
       ELSE UNCHANGED <<lastTopologyUpdateRef, topology, pendingTopologyRef>>
    /\ UNCHANGED <<now, waitingForTopologyAfterSwitch, sseContext, sseRest>>

\* the 'context_changed' listener
OnContextChanged ==
    /\ sseContext < MaxContexts
    /\ topology' = NoTopology
    /\ waitingForTopologyAfterSwitch' = TRUE
    /\ sseContext' = sseContext + 1
    /\ UNCHANGED <<now, lastTopologyUpdateRef, pendingTopologyRef, throttleTimeoutRef,
                   sseRest>>

SseTick ==
    /\ now + 500 <= SseMountTime + MaxSseTicks * 500
    /\ now' = now + 500
    /\ UNCHANGED <<sseVars, sseRest>>

SseSpecInit == now = SseMountTime /\ CapsInit /\ CacheInit /\ FsQuiet /\ ExtInit

SseNext ==
    \/ \E nodeCount \in NodeCounts : OnTopology(nodeCount)
    \/ ThrottleTimeout
    \/ OnContextChanged
    \/ SseTick

SpecSSE == SseSpecInit /\ [][SseNext]_vars

\* C12: once context_changed has been handled the exposed topology is empty
\* until a topology event arrives, and an exposed topology is never a
\* snapshot received before the last context_changed.
C12_NoStaleTopology ==
    /\ waitingForTopologyAfterSwitch => topology = NoTopology
    /\ topology # NoTopology => topology.ctx = sseContext

(***************************************************************************)
(* Registry access of an image request: DetectRegistryType,                *)
(* GetAuthenticatedKeychain, fetchImageBruteForce, GetMetadata.            *)
(* An image reference is the sequence of its slash-separated segments, in  *)
(* lower case.                                                             *)
(***************************************************************************)
ImageRefs ==
    { <<"gcr.io", "proj", "app">>,
      <<"ghcr.io", "org", "app">>,
      <<"nginx">>,
      <<"library", "nginx">>,
      <<"registry.example.com", "app">>,
      <<"registry.example.com", "gcr.io", "app">> }

\* the substrings DetectRegistryType looks for that a segment contains
Marks(seg) ==
    CASE seg = "gcr.io" -> {"gcr.io", "."}
      [] seg = "us-docker.pkg.dev" -> {"pkg.dev", "."}
      [] seg = "ghcr.io" -> {"ghcr.io", "."}
      [] seg = "quay.io" -> {"quay.io", "."}
      [] seg = "registry.gitlab.com" -> {"registry.gitlab.com", "."}
      [] seg = "docker.io" -> {"docker.io", "."}
      [] seg = "index.docker.io" -> {"docker.io", "index.docker.io", "."}
      [] seg = "registry.example.com" -> {"."}
      [] OTHER -> {}

\* strings.Contains(ref, marker), for a marker without a slash
Contains(ref, marker) == \E i \in 1 .. Len(ref) : marker \in Marks(ref[i])

DetectRegistryType(ref) ==
    IF Contains(ref, "gcr.io") \/ Contains(ref, "pkg.dev") THEN "google"
    ELSE IF Contains(ref, ".dkr.ecr.") /\ Contains(ref, ".amazonaws.com") THEN "aws"
    ELSE IF Contains(ref, ".azurecr.io") THEN "azure"
    ELSE IF Contains(ref, "ghcr.io") THEN "github"
    ELSE IF Contains(ref, "quay.io") THEN "quay"
    ELSE IF Contains(ref, "registry.gitlab.com") THEN "gitlab"
    ELSE IF Len(ref) = 1 \/ ref[1] \in {"docker.io", "index.docker.io"} THEN "docker"
    ELSE IF "." \notin Marks(ref[1]) THEN "docker"
    ELSE "generic"

\* What a request meets.  pullSecrets: no secret names given ("none"), names
\* that yield no docker-config entry ("unusable"), entries for other
\* registries only ("other"), an entry for the image's registry ("match").
\* anonymous: how the registry answers the anonymous pull.  adc,
\* dockerConfig: whether google.Keychain resp. authn.DefaultKeychain hold a
\* credential for the registry.  accepted: whether the registry accepts the
\* pull made with the keychain.  cached: what getCachedLayers and
\* buildFilesystemFromCache find for the image's digest.
AuthRequests ==
    [ image : ImageRefs,
      pullSecrets : {"none", "unusable", "other", "match"},
      anonymous : {"ok", "auth", "not_found"},
      adc : BOOLEAN, dockerConfig : BOOLEAN, accepted : BOOLEAN,
      cached : {"no", "yes", "unreadable"} ]

\* getKeychainFromSecrets: nil when no entry was collected
getKeychainFromSecrets(req) ==
    IF req.pullSecrets \in {"other", "match"} THEN <<"pull_secrets">> ELSE <<>>

\* the keychains handed to authn.NewMultiKeychain, in order
GetAuthenticatedKeychain(req) ==
    (IF req.pullSecrets # "none" THEN getKeychainFromSecrets(req) ELSE <<>>)
    \o (IF DetectRegistryType(req.image) = "google" THEN <<"google">> ELSE <<>>)
    \o <<"default">>

\* whether a keychain resolves the image's registry to a credential (and not
\* to authn.Anonymous)
Holds(req, k) ==
    CASE k = "pull_secrets" -> req.pullSecrets = "match"
      [] k = "google" -> req.adc
      [] k = "default" -> req.dockerConfig

\* the multi-keychain's Resolve: the keychains are asked in order, the first
\* authenticator that is not authn.Anonymous is taken
Asked(req, kc) ==
    IF \E i \in 1 .. Len(kc) : Holds(req, kc[i])
    THEN SubSeq(kc, 1, CHOOSE i \in 1 .. Len(kc) :
                          /\ Holds(req, kc[i])
                          /\ \A j \in 1 .. (i - 1) : ~Holds(req, kc[j]))
    ELSE kc
Resolve(req, kc) ==
    LET a == Asked(req, kc)
    IN  IF Holds(req, a[Len(a)]) THEN a[Len(a)] ELSE "anonymous"

\* the registry's answer to the pull made with the resolved authenticator:
\* an anonymous pull that was refused for lack of credentials is refused again
Accepts(req, key) ==
    req.accepted /\ ~(key = "anonymous" /\ req.anonymous = "auth")

Fetched(ok, method) == [ done |-> TRUE, ok |-> ok, method |-> method ]
Meta(ok, cached, method) ==
    [ done |-> TRUE, ok |-> ok, cached |-> cached, authMethod |-> method ]

authRest == <<now, capsVars, cacheVars, fsVars, sseVars, helmVars, argoVars, imgVars, healthVars, tarVars, hubVars, strVars, termVars, polVars>>

\* GetMetadata is called
GetMetadata(req) ==
    /\ authPc = "idle"
    /\ authReq' = req
    /\ authPc' = "anonymous"
    /\ UNCHANGED <<authLog, authKey, authFetch, metaOut, authRest>>

\* fetchImageBruteForce: remote.Image with authn.Anonymous
FetchAnonymous ==
    /\ authPc = "anonymous"
    /\ authLog' = Append(authLog, "anonymous")
    /\ IF authReq.anonymous = "ok"
       THEN /\ authFetch' = Fetched(TRUE, "anonymous")
            /\ authPc' = "fetched"
       ELSE /\ authFetch' = authFetch
            /\ authPc' = "credentials"
    /\ UNCHANGED <<authReq, authKey, metaOut, authRest>>

\* fetchImageBruteForce: remote.Image with the authenticated keychain
FetchWithKeychain ==
    /\ authPc = "credentials"
    /\ LET kc == GetAuthenticatedKeychain(authReq)
           key == Resolve(authReq, kc)
       IN  /\ authLog' = authLog \o Asked(authReq, kc)
           /\ authKey' = key
           /\ authFetch' = IF Accepts(authReq, key)
                           THEN Fetched(TRUE, DetectRegistryType(authReq.image))
                           ELSE Fetched(FALSE, "")
    /\ authPc' = "fetched"
    /\ UNCHANGED <<authReq, metaOut, authRest>>

\* GetMetadata after fetchImageBruteForce returned
AuthMethodOf(req, fetched) ==
    IF req.cached = "yes" THEN "cached" ELSE fetched.method

GetMetadataReturn ==
    /\ authPc = "fetched"
    /\ metaOut' = IF ~authFetch.ok
                  THEN Meta(FALSE, FALSE, "")
                  ELSE Meta(TRUE, authReq.cached = "yes",
                            AuthMethodOf(authReq, authFetch))
    /\ authPc' = "done"
    /\ UNCHANGED <<authReq, authLog, authKey, authFetch, authRest>>

AuthSpecInit ==
    /\ now = 0
    /\ CapsInit /\ CacheInit /\ FsQuiet /\ ExtInit

AuthNext ==
    \/ \E req \in AuthRequests : GetMetadata(req)
    \/ FetchAnonymous
    \/ FetchWithKeychain
    \/ GetMetadataReturn

SpecAuth == AuthSpecInit /\ [][AuthNext]_vars

\* the place of a credential source in the documented order
SourceRank(k) ==
    CASE k = "anonymous" -> 0
      [] k = "pull_secrets" -> 1
      [] k = "google" -> 2
      [] k = "default" -> 3

\* C17: the credential sources of a fetch are consulted in a fixed order: the
\* anonymous pull first; a credential source only after the anonymous pull
\* failed with an auth failure; then pull secrets (when they yield
\* credentials), the registry-specific provider, which the image's host
\* selects, and the ambient credential store, in this order.
C17_CredentialOrder ==
    /\ authLog # <<>> => authLog[1] = "anonymous"
    /\ Len(authLog) > 1 => authReq.anonymous = "auth"
    /\ \A i, j \in 1 .. Len(authLog) :
          i < j => SourceRank(authLog[i]) < SourceRank(authLog[j])
    /\ (Len(authLog) > 1 /\ authReq.pullSecrets \in {"other", "match"})
          => authLog[2] = "pull_secrets"
    /\ (\E i \in 1 .. Len(authLog) : authLog[i] = "google")
          => DetectRegistryType(<<authReq.image[1]>>) = "google"

\* C18: the auth method GetMetadata reports names the method by which the
\* pull of this request succeeded: "anonymous" exactly when the anonymous
\* pull succeeded, otherwise the credential method fetchImageBruteForce
\* names, whether or not the image's layers are cached.
C18_ReportedAuthMethod ==
    (metaOut.done /\ metaOut.ok) =>
        /\ metaOut.authMethod = "anonymous" <=> authReq.anonymous = "ok"
        /\ authReq.anonymous # "ok" =>
              metaOut.authMethod = DetectRegistryType(authReq.image)

(***************************************************************************)
(* Release handlers (package helm): handleRollback, handleUninstall,       *)
(* handleUpgrade, for one release                                          *)
(***************************************************************************)
HelmOps == {"rollback", "upgrade", "uninstall"}

\* the 'revision' and 'version' query parameters a request can carry
RevStrs == {"", "abc", "1", "2"}
Versions == {"", "1.0", "2.0"}

\* strconv.Atoi
Atoi(str) ==
    CASE str = "1" -> [ ok |-> TRUE, n |-> 1 ]
      [] str = "2" -> [ ok |-> TRUE, n |-> 2 ]
      [] OTHER -> [ ok |-> FALSE, n |-> 0 ]

\* a call of client.Rollback, client.Upgrade or client.Uninstall
LibCall(op, revision, version) ==
    [ op |-> op, revision |-> revision, version |-> version ]

\* writeError / writeJSON (writeJSON leaves the status at 200)
Resp(op, status, message) ==
    [ done |-> TRUE, op |-> op, status |-> status, message |-> message ]

helmRest == <<now, capsVars, cacheVars, fsVars, sseVars, authVars, argoVars, imgVars, healthVars, tarVars, hubVars, strVars, termVars, polVars>>

\* the release client is initialised
HelmClientInit ==
    /\ ~helmClient
    /\ helmClient' = TRUE
    /\ UNCHANGED <<helmAccess, helmCalls, helmResp, helmRest>>

handleRollback(revStr, libErr) ==
    /\ IF ~helmClient
       THEN /\ helmResp' = Resp("rollback", 503, "Helm client not initialized")
            /\ UNCHANGED helmCalls
       ELSE IF revStr = ""
       THEN /\ helmResp' = Resp("rollback", 400, "revision parameter is required")
            /\ UNCHANGED helmCalls
       ELSE IF ~Atoi(revStr).ok
       THEN /\ helmResp' = Resp("rollback", 400, "invalid revision parameter")
            /\ UNCHANGED helmCalls
       ELSE /\ helmCalls' = helmCalls \cup {LibCall("rollback", Atoi(revStr).n, "")}
            /\ helmResp' = IF libErr
                           THEN Resp("rollback", 500, "library error")
                           ELSE Resp("rollback", 200, "Rollback completed")
    /\ UNCHANGED <<helmClient, helmAccess, helmRest>>

handleUninstall(libErr) ==
    /\ IF ~helmClient
       THEN /\ helmResp' = Resp("uninstall", 503, "Helm client not initialized")
            /\ UNCHANGED helmCalls
       ELSE /\ helmCalls' = helmCalls \cup {LibCall("uninstall", 0, "")}
            /\ helmResp' = IF libErr
                           THEN Resp("uninstall", 500, "library error")
                           ELSE Resp("uninstall", 200, "Release uninstalled")
    /\ UNCHANGED <<helmClient, helmAccess, helmRest>>

handleUpgrade(version, libErr) ==
    /\ IF ~helmClient
       THEN /\ helmResp' = Resp("upgrade", 503, "Helm client not initialized")
            /\ UNCHANGED helmCalls
       ELSE IF version = ""
       THEN /\ helmResp' = Resp("upgrade", 400, "version parameter is required")
            /\ UNCHANGED helmCalls
       ELSE /\ helmCalls' = helmCalls \cup {LibCall("upgrade", 0, version)}
            /\ helmResp' = IF libErr
                           THEN Resp("upgrade", 500, "library error")
                           ELSE Resp("upgrade", 200, "Upgrade completed")
    /\ UNCHANGED <<helmClient, helmAccess, helmRest>>

\* the cluster allows the process any set of the release operations
HelmInit ==
    /\ helmClient = FALSE
    /\ helmAccess \in SUBSET HelmOps
    /\ helmCalls = {}
    /\ helmResp = NotYet

HelmSpecInit ==
    /\ now = 0
    /\ CapsInit /\ CacheInit /\ FsQuiet
    /\ SseInit /\ AuthInit /\ ArgoInit /\ ImgInit /\ HealthInit /\ TarInit /\ HubInit /\ StreamInit /\ TermInit /\ PolInit
    /\ HelmInit

HelmNext ==
    \/ HelmClientInit
    \/ \E revStr \in RevStrs, libErr \in BOOLEAN : handleRollback(revStr, libErr)
    \/ \E libErr \in BOOLEAN : handleUninstall(libErr)
    \/ \E version \in Versions, libErr \in BOOLEAN : handleUpgrade(version, libErr)

SpecHelm == HelmSpecInit /\ [][HelmNext]_vars

\* C19: a mutating release operation (rollback, upgrade, uninstall) requires
\* its capability: when the capability is denied the handler refuses the
\* request and the release library's Rollback, Upgrade or Uninstall is
\* never called.
C19_MutationRequiresCapability ==
    /\ \A c \in helmCalls : c.op \in helmAccess
    /\ (helmResp.done /\ helmResp.op \notin helmAccess) => helmResp.status # 200

(***************************************************************************)
(* handleArgoSync, for one application, with the application controller    *)
(* and the cluster as its environment.  A request is two calls to the      *)
(* cluster, the Get and the Patch; other requests and the controller run   *)
(* between them.                                                           *)
(***************************************************************************)
argoRest == <<now, capsVars, cacheVars, fsVars, sseVars, authVars, helmVars, imgVars, healthVars, tarVars, hubVars, strVars, termVars, polVars>>

\* the dynamic client is initialised
ArgoClientInit ==
    /\ ~argoClient
    /\ argoClient' = TRUE
    /\ UNCHANGED <<argoApp, argoPc, argoSeen, argoPatches, argoResp, argoRest>>

\* the request arrives: client check and Get
ArgoSyncGet(p, getErr) ==
    /\ argoPc[p] \in {"idle", "done"}
    /\ argoPatches < MaxPatches
    /\ IF ~argoClient
       THEN /\ argoResp' = [argoResp EXCEPT ![p] = 503]
            /\ argoPc' = [argoPc EXCEPT ![p] = "done"]
            /\ argoSeen' = [argoSeen EXCEPT ![p] = NoApp]
       ELSE IF ~argoApp.exists
       THEN /\ argoResp' = [argoResp EXCEPT ![p] = 404]
            /\ argoPc' = [argoPc EXCEPT ![p] = "done"]
            /\ argoSeen' = [argoSeen EXCEPT ![p] = NoApp]
       ELSE IF getErr
       THEN /\ argoResp' = [argoResp EXCEPT ![p] = 500]
            /\ argoPc' = [argoPc EXCEPT ![p] = "done"]
            /\ argoSeen' = [argoSeen EXCEPT ![p] = NoApp]
       ELSE /\ argoResp' = [argoResp EXCEPT ![p] = 0]
            /\ argoPc' = [argoPc EXCEPT ![p] = "fetched"]
            /\ argoSeen' = [argoSeen EXCEPT ![p] = argoApp]
    /\ UNCHANGED <<argoClient, argoApp, argoPatches, argoRest>>

\* status.operationState.phase is found and is "Running"
OperationInProgress_Never(app) == FALSE
OperationInProgress(app) == app.phase # "" /\ app.phase = "Running"

\* the check of the fetched application, and the Patch
ArgoSyncPatch(p, patchErr) ==
    /\ argoPc[p] = "fetched"
    /\ IF OperationInProgress(argoSeen[p])
       THEN /\ argoResp' = [argoResp EXCEPT ![p] = 409]
            /\ UNCHANGED <<argoApp, argoPatches>>
       ELSE IF patchErr \/ ~argoApp.exists
       THEN /\ argoResp' = [argoResp EXCEPT ![p] = 500]
            /\ UNCHANGED <<argoApp, argoPatches>>
       ELSE /\ argoResp' = [argoResp EXCEPT ![p] = 200]
            /\ argoApp' = [argoApp EXCEPT !.operation = TRUE]
            /\ argoPatches' = argoPatches + 1
    /\ argoPc' = [argoPc EXCEPT ![p] = "done"]
    /\ UNCHANGED <<argoClient, argoSeen, argoRest>>

\* the application controller takes up the operation field
ControllerStart ==
    /\ argoApp.exists /\ argoApp.operation
    /\ argoApp' = [argoApp EXCEPT !.operation = FALSE, !.phase = "Running"]
    /\ UNCHANGED <<argoClient, argoPc, argoSeen, argoPatches, argoResp, argoRest>>

\* the running operation ends
ControllerFinish(phase) ==
    /\ argoApp.exists /\ argoApp.phase = "Running"
    /\ argoApp' = [argoApp EXCEPT !.phase = phase]
    /\ UNCHANGED <<argoClient, argoPc, argoSeen, argoPatches, argoResp, argoRest>>

\* the application is deleted, or created again
AppDelete ==
    /\ argoApp.exists
    /\ argoApp' = NoApp
    /\ UNCHANGED <<argoClient, argoPc, argoSeen, argoPatches, argoResp, argoRest>>
AppCreate ==
    /\ ~argoApp.exists
    /\ argoApp' = [ exists |-> TRUE, operation |-> FALSE, phase |-> "" ]
    /\ UNCHANGED <<argoClient, argoPc, argoSeen, argoPatches, argoResp, argoRest>>

\* handleArgoTerminate, one request at a time, between the sync requests and
\* the controller's steps
termRest == <<now, capsVars, cacheVars, fsVars, sseVars, authVars, helmVars, imgVars, healthVars, tarVars, hubVars, strVars, polVars>>
argoSync == <<argoClient, argoPc, argoSeen, argoPatches, argoResp>>

\* the request arrives: client check and Get
ArgoTerminateGet(getErr) ==
    /\ termPc \in {"idle", "done"}
    /\ termPatch' = "none"
    /\ IF ~argoClient
       THEN /\ termResp' = 503
            /\ termPc' = "done"
            /\ termSeen' = NoApp
       ELSE IF ~argoApp.exists
       THEN /\ termResp' = 404
            /\ termPc' = "done"
            /\ termSeen' = NoApp
       ELSE IF getErr
       THEN /\ termResp' = 500
            /\ termPc' = "done"
            /\ termSeen' = NoApp
       ELSE /\ termResp' = 0
            /\ termPc' = "fetched"
            /\ termSeen' = argoApp
    /\ UNCHANGED <<argoApp, argoSync, termRest>>

\* what the API server answers to [{"op": "remove", "path": "/operation"}]:
\* the application is gone, the field is missing, or the field is removed
RemoveOperation(app, patchErr) ==
    IF patchErr THEN "error"
    ELSE IF ~app.exists THEN "not found"
    ELSE IF ~app.operation THEN "nonexistent"
    ELSE "removed"

Tolerated_Never(result) == FALSE

\* strings.Contains(err.Error(), "nonexistent")
Tolerated(result) == result = "nonexistent"

\* the check of the fetched phase, and the Patch
ArgoTerminatePatch(patchErr) ==
    /\ termPc = "fetched"
    /\ termPc' = "done"
    /\ IF ~OperationInProgress(termSeen)
       THEN /\ termResp' = 400
            /\ UNCHANGED <<argoApp, termPatch>>
       ELSE LET result == RemoveOperation(argoApp, patchErr)
            IN  /\ termPatch' = result
                /\ argoApp' = IF result = "removed"
                              THEN [argoApp EXCEPT !.operation = FALSE]
                              ELSE argoApp
                /\ termResp' = IF result = "removed" \/ Tolerated(result)
                               THEN 200 ELSE 500
    /\ UNCHANGED <<termSeen, argoSync, termRest>>

ArgoSpecInit ==
    /\ now = 0
    /\ CapsInit /\ CacheInit /\ FsQuiet /\ ExtInit

ArgoNext ==
    \/ ArgoClientInit
    \/ \E p \in SyncRequests, getErr \in BOOLEAN : ArgoSyncGet(p, getErr)
    \/ \E p \in SyncRequests, patchErr \in BOOLEAN : ArgoSyncPatch(p, patchErr)
    \/ ControllerStart
    \/ \E phase \in {"Succeeded", "Failed"} : ControllerFinish(phase)
    \/ AppDelete
    \/ AppCreate

SpecArgo == ArgoSpecInit /\ [][ArgoNext]_vars

\* a terminate request next to one sync request, the controller and the
\* cluster
TermSpecInit ==
    /\ now = 0
    /\ CapsInit /\ CacheInit /\ FsQuiet /\ ExtInit

TermNext ==
    \/ ArgoClientInit
    \/ \E getErr \in BOOLEAN : ArgoSyncGet(1, getErr)
    \/ \E patchErr \in BOOLEAN : ArgoSyncPatch(1, patchErr)
    \/ ControllerStart
    \/ \E phase \in {"Succeeded", "Failed"} : ControllerFinish(phase)
    \/ AppDelete
    \/ AppCreate
    \/ \E getErr \in BOOLEAN : ArgoTerminateGet(getErr)
    \/ \E patchErr \in BOOLEAN : ArgoTerminatePatch(patchErr)

SpecTerm == TermSpecInit /\ [][TermNext]_vars

\* a request that has fetched the application is answered
Answered(p) == argoPc[p] = "fetched" /\ argoPc'[p] = "done"

\* C20: a sync request whose fetched application shows an operation in
\* phase Running is answered 409 and issues no patch; the cluster receives a
\* sync patch only from a request that fetched the application and saw no
\* operation running.
C20_RunningSyncConflicts ==
    /\ [][\A p \in SyncRequests :
            (Answered(p) /\ argoSeen[p].phase = "Running") =>
                /\ argoResp'[p] = 409
                /\ argoPatches' = argoPatches
                /\ argoApp' = argoApp]_vars
    /\ [][(argoPatches' # argoPatches \/ (argoApp'.operation /\ ~argoApp.operation)) =>
            \E p \in SyncRequests :
                /\ Answered(p)
                /\ argoSeen[p].exists
                /\ argoSeen[p].phase # "Running"
                /\ argoResp'[p] = 200]_vars
    /\ [](\A p \in SyncRequests : argoResp[p] = 409 => argoSeen[p].phase = "Running")

\* a request was answered 409 on an operation that an earlier request's
\* patch started
C20_Witness ==
    \E p \in SyncRequests :
        /\ argoPc[p] = "done" /\ argoResp[p] = 409
        /\ argoSeen[p].phase = "Running"
        /\ argoPatches > 0

(***************************************************************************)
(* HTTP handlers of the image inspector: handleMetadata, handleInspect,    *)
(* handleGetFile.  An error of the inspector is the set of the substrings  *)
(* the handlers look for that its text contains, with its cause.           *)
(***************************************************************************)
\* how a call of GetMetadata, Inspect or GetFileContent can end: the
\* registry refuses the credentials, the image is unknown, the request's
\* context is cancelled (ctx.Err()), another registry failure
InspectorErrors ==
    { [ cause |-> "auth", text |-> {"unauthorized"} ],
      [ cause |-> "auth", text |-> {"denied"} ],
      [ cause |-> "image_not_found", text |-> {"manifest unknown"} ],
      [ cause |-> "image_not_found", text |-> {"not found"} ],
      [ cause |-> "cancelled", text |-> {} ],
      [ cause |-> "registry", text |-> {} ] }
\* readFileFromCachedLayers: "file not found: <path>"
FileNotFound == [ cause |-> "file_not_found", text |-> {"not found"} ]
Success == [ cause |-> "", text |-> {} ]

\* strings.Split(pullSecrets, ",") of the 'pullSecrets' parameter
SplitComma(str) ==
    CASE str = "" -> <<>>
      [] str = "a" -> <<"a">>
      [] str = "a,b" -> <<"a", "b">>

\* the InspectRequest the three handlers build from the query
BuildRequest(imageRef, namespace, pod, pullSecrets) ==
    LET given == SplitComma(pullSecrets)
    IN  [ Image |-> imageRef, Namespace |-> namespace, PodName |-> pod,
          PullSecretNames |->
              IF pod # "" /\ namespace # "" /\ Len(given) = 0
              THEN <<"discovered">> ELSE given ]

ImgCall(op, req, path, err) ==
    [ done |-> TRUE, op |-> op, req |-> req, path |-> path, err |-> err ]
ImgResp(status, message) ==
    [ done |-> TRUE, status |-> status, message |-> message ]

\* the error branch of handleMetadata and of handleInspect
WriteImageError(err) ==
    IF "unauthorized" \in err.text \/ "denied" \in err.text
    THEN ImgResp(401, "Authentication required for this image")
    ELSE IF "not found" \in err.text \/ "manifest unknown" \in err.text
    THEN ImgResp(404, "Image not found")
    ELSE ImgResp(500, "err.Error()")

\* the error branch of handleGetFile
WriteFileError(err) ==
    IF "not found" \in err.text
    THEN ImgResp(404, "File not found")
    ELSE ImgResp(500, "err.Error()")

imgRest == <<now, capsVars, cacheVars, fsVars, sseVars, authVars, helmVars, argoVars, healthVars, tarVars, hubVars, strVars, termVars, polVars>>

handleMetadata(imageRef, namespace, pod, pullSecrets, err) ==
    /\ IF imageRef = ""
       THEN /\ imgCall' = ImgCall("metadata", NotYet, "", Success)
            /\ imgResp' = ImgResp(400, "image parameter is required")
       ELSE /\ imgCall' = ImgCall("metadata",
                              BuildRequest(imageRef, namespace, pod, pullSecrets), "", err)
            /\ imgResp' = IF err # Success THEN WriteImageError(err)
                          ELSE ImgResp(200, "")
    /\ UNCHANGED imgRest

handleInspect(imageRef, namespace, pod, pullSecrets, err) ==
    /\ IF imageRef = ""
       THEN /\ imgCall' = ImgCall("inspect", NotYet, "", Success)
            /\ imgResp' = ImgResp(400, "image parameter is required")
       ELSE /\ imgCall' = ImgCall("inspect",
                              BuildRequest(imageRef, namespace, pod, pullSecrets), "", err)
            /\ imgResp' = IF err # Success THEN WriteImageError(err)
                          ELSE ImgResp(200, "")
    /\ UNCHANGED imgRest

handleGetFile(imageRef, path, namespace, pod, pullSecrets, err) ==
    /\ IF imageRef = ""
       THEN /\ imgCall' = ImgCall("get_file", NotYet, "", Success)
            /\ imgResp' = ImgResp(400, "image parameter is required")
       ELSE IF path = ""
       THEN /\ imgCall' = ImgCall("get_file", NotYet, "", Success)
            /\ imgResp' = ImgResp(400, "path parameter is required")
       ELSE /\ imgCall' = ImgCall("get_file",
                              BuildRequest(imageRef, namespace, pod, pullSecrets), path, err)
            /\ imgResp' = IF err # Success THEN WriteFileError(err)
                          ELSE ImgResp(200, "")
    /\ UNCHANGED imgRest

ImgSpecInit ==
    /\ now = 0
    /\ CapsInit /\ CacheInit /\ FsQuiet /\ ExtInit

ImgNext ==
    \E imageRef \in {"", "nginx"}, namespace \in {"", "ns"}, pod \in {"", "pod"},
       pullSecrets \in {"", "a", "a,b"} :
        \/ \E err \in InspectorErrors \cup {Success} :
              handleMetadata(imageRef, namespace, pod, pullSecrets, err)
        \/ \E err \in InspectorErrors \cup {Success} :
              handleInspect(imageRef, namespace, pod, pullSecrets, err)
        \/ \E err \in InspectorErrors \cup {FileNotFound, Success},
              path \in {"", "/etc/passwd"} :
              handleGetFile(imageRef, path, namespace, pod, pullSecrets, err)

SpecImg == ImgSpecInit /\ [][ImgNext]_vars

\* the category a response reports, and the category a cause belongs to
ReportedCategory(resp) ==
    CASE resp.status = 401 -> "auth"
      [] resp.status = 404 -> "not_found"
      [] OTHER -> "registry"
CategoryOfCause(cause) ==
    CASE cause = "auth" -> "auth"
      [] cause \in {"image_not_found", "file_not_found"} -> "not_found"
      [] cause = "cancelled" -> "cancelled"
      [] OTHER -> "registry"

\* C21: a failed image operation (metadata, inspect, get file) is reported
\* in the category of its cause: a credential failure as auth, a missing
\* image or file as not_found, a cancelled request as cancelled, any other
\* registry failure as registry.
C21_ErrorCategoryMatchesCause ==
    (imgCall.done /\ imgCall.err # Success) =>
        ReportedCategory(imgResp) = CategoryOfCause(imgCall.err.cause)

(***************************************************************************)
(* determineHealth.  A resource is the fields of the object the function   *)
(* can read; a field the object does not have is Absent (a number), "" (a  *)
(* phase) or <<>> (the container statuses).                                *)
(***************************************************************************)
Absent == -1

Resource(replicas, readyReplicas, updatedReplicas, desiredNumberScheduled,
         numberReady, updatedNumberScheduled, phase, containerStatuses) ==
    [ replicas |-> replicas, readyReplicas |-> readyReplicas,
      updatedReplicas |-> updatedReplicas,
      desiredNumberScheduled |-> desiredNumberScheduled,
      numberReady |-> numberReady,
      updatedNumberScheduled |-> updatedNumberScheduled,
      phase |-> phase, containerStatuses |-> containerStatuses ]

\* Deployments, StatefulSets and ReplicaSets carry spec.replicas,
\* status.readyReplicas and status.updatedReplicas
ReplicaObjects(n) ==
    { Resource(d, r, u, Absent, Absent, Absent, "", <<>>) :
        d \in 0 .. n, r \in {Absent} \cup (1 .. n), u \in {Absent} \cup (1 .. n) }

\* DaemonSets carry status.desiredNumberScheduled, status.numberReady and
\* status.updatedNumberScheduled, and no replica count
DaemonSetObjects(n) ==
    { Resource(Absent, Absent, Absent, d, r, u, "", <<>>) :
        d \in 0 .. n, r \in 0 .. n, u \in 0 .. n }

\* a container status: ready, or not ready and waiting with a reason ("" when
\* the container is not waiting)
ContainerStatuses ==
    { [ ready |-> TRUE, waiting |-> "" ] } \cup
    { [ ready |-> FALSE, waiting |-> w ] :
        w \in {"", "ContainerCreating", "CrashLoopBackOff", "ImagePullBackOff",
               "ErrImagePull"} }

PodObjects(n) ==
    { Resource(Absent, Absent, Absent, Absent, Absent, Absent, ph, cs) :
        ph \in {"Running", "Succeeded", "Pending", "Failed", "Unknown"},
        cs \in UNION { [1 .. k -> ContainerStatuses] : k \in 0 .. n } }

\* x || 0
OrZero(x) == IF x = Absent THEN 0 ELSE x

determineHealth(kind, resource) ==
    IF kind \in {"Deployment", "StatefulSet", "DaemonSet"} THEN
        LET desired == OrZero(resource.replicas)
            ready == OrZero(resource.readyReplicas)
            updated == OrZero(resource.updatedReplicas)
        IN  IF ready = 0 /\ desired > 0 THEN "unhealthy"
            ELSE IF ready < desired \/ updated < desired THEN "degraded"
            ELSE "healthy"
    ELSE IF kind = "ReplicaSet" THEN
        LET desired == OrZero(resource.replicas)
            ready == OrZero(resource.readyReplicas)
        IN  IF ready = 0 /\ desired > 0 THEN "unhealthy"
            ELSE IF ready < desired THEN "degraded"
            ELSE "healthy"
    ELSE IF kind = "Pod" THEN
        IF resource.phase \in {"Running", "Succeeded"}
        THEN IF \A i \in 1 .. Len(resource.containerStatuses) :
                    resource.containerStatuses[i].ready
             THEN "healthy" ELSE "degraded"
        ELSE IF resource.phase = "Pending" THEN "degraded"
        ELSE "unhealthy"
    ELSE IF kind = "Service" THEN "healthy"
    ELSE "unknown"

healthRest == <<now, capsVars, cacheVars, fsVars, sseVars, authVars, helmVars, argoVars, imgVars, tarVars, hubVars, strVars, termVars, polVars>>

\* the resources of a kind
ObjectsOf(kind) ==
    CASE kind \in {"Deployment", "StatefulSet", "ReplicaSet"} -> ReplicaObjects(MaxReplicas)
      [] kind = "DaemonSet" -> DaemonSetObjects(MaxReplicas)
      [] kind = "Pod" -> PodObjects(MaxContainers)
      [] OTHER -> { Resource(Absent, Absent, Absent, Absent, Absent, Absent, "", <<>>) }

\* the badge is rendered for a resource
DetermineHealth(kind, resource) ==
    /\ healthIn' = [ done |-> TRUE, kind |-> kind, resource |-> resource ]
    /\ healthOut' = determineHealth(kind, resource)
    /\ UNCHANGED healthRest

HealthSpecInit ==
    /\ now = 0
    /\ CapsInit /\ CacheInit /\ FsQuiet /\ ExtInit

HealthNext ==
    \E kind \in {"Deployment", "StatefulSet", "DaemonSet", "ReplicaSet", "Pod",
                 "Service", "ConfigMap"} :
        \E resource \in ObjectsOf(kind) : DetermineHealth(kind, resource)

SpecHealth == HealthSpecInit /\ [][HealthNext]_vars

\* desired, ready and updated as the object of the kind carries them
DesiredOf(kind, resource) ==
    IF kind = "DaemonSet" THEN resource.desiredNumberScheduled
    ELSE OrZero(resource.replicas)
ReadyOf(kind, resource) ==
    IF kind = "DaemonSet" THEN resource.numberReady
    ELSE OrZero(resource.readyReplicas)
UpdatedOf(kind, resource) ==
    IF kind = "DaemonSet" THEN resource.updatedNumberScheduled
    ELSE OrZero(resource.updatedReplicas)

\* the workload rule
WorkloadRule(desired, ready, updated, health) ==
    /\ (ready = 0 /\ desired > 0) => health = "unhealthy"
    /\ ((0 < ready /\ ready < desired) \/ (ready > 0 /\ updated < desired))
          => health = "degraded"
    /\ (ready = desired /\ updated >= desired) => health = "healthy"

\* C22: determineHealth classifies a Deployment, StatefulSet or DaemonSet by
\* the workload rule, with desired, ready and updated taken from the object:
\* ready = desired is healthy, 0 < ready < desired or updated < desired is
\* degraded, ready = 0 with desired > 0 is unhealthy.
C22_WorkloadHealth ==
    (healthIn.done /\ healthIn.kind \in {"Deployment", "StatefulSet", "DaemonSet"}) =>
        WorkloadRule(DesiredOf(healthIn.kind, healthIn.resource),
                     ReadyOf(healthIn.kind, healthIn.resource),
                     UpdatedOf(healthIn.kind, healthIn.resource), healthOut)

BackOffReasons == {"CrashLoopBackOff", "ImagePullBackOff", "ErrImagePull"}
InBackOff(resource) ==
    \E i \in 1 .. Len(resource.containerStatuses) :
        resource.containerStatuses[i].waiting \in BackOffReasons
AllReady(resource) ==
    \A i \in 1 .. Len(resource.containerStatuses) :
        resource.containerStatuses[i].ready

\* C23: determineHealth classifies a Pod by the pod rule: Running with all
\* containers ready is healthy, Pending is degraded, Failed or Unknown is
\* unhealthy, and a pod with a container waiting with reason
\* CrashLoopBackOff, ImagePullBackOff or ErrImagePull is unhealthy whatever
\* its phase.
C23_PodHealth ==
    (healthIn.done /\ healthIn.kind = "Pod") =>
        LET pod == healthIn.resource
        IN  /\ InBackOff(pod) => healthOut = "unhealthy"
            /\ (~InBackOff(pod) /\ pod.phase = "Running" /\ AllReady(pod))
                  => healthOut = "healthy"
            /\ (~InBackOff(pod) /\ pod.phase = "Pending") => healthOut = "degraded"
            /\ pod.phase \in {"Failed", "Unknown"} => healthOut = "unhealthy"

(***************************************************************************)
(* The read loop of buildFilesystemTreeFromFiles and of                    *)
(* readFileFromCachedLayers: for each layer file, os.Open, then tr.Next()  *)
(* until io.EOF.  A layer file opens or not (os.Open fails); its items are *)
(* what the tar reader meets in it: "hdr" (a header it can read) or        *)
(* "corrupt" (a place where the archive is truncated or damaged).  What    *)
(* the functions do with a header is in ApplyHeader and ReadHeader above.  *)
(***************************************************************************)
TarLayerFiles(n) ==
    { [ opens |-> FALSE, items |-> <<>> ] } \cup
    { [ opens |-> TRUE, items |-> its] :
        its \in UNION { [1 .. k -> {"hdr", "corrupt"}] : k \in 0 .. n } }
TarInputs(m, n) == UNION { [1 .. k -> TarLayerFiles(n)] : k \in 1 .. m }

tarRest == <<now, capsVars, cacheVars, fsVars, sseVars, authVars, helmVars, argoVars, imgVars, healthVars, hubVars, strVars, termVars, polVars>>

\* one of the two functions is called
ReadLoopStart(fn, layerPaths) ==
    /\ tarPc = "idle"
    /\ tarFn' = fn
    /\ tarLayers' = layerPaths
    /\ tarIdx' = 1
    /\ tarPc' = "open"
    /\ UNCHANGED <<tarPos, tarErr, tarCancelled, tarSpin, tarRest>>

\* for _, layerPath := range layerPaths { file, err := os.Open(layerPath) ...
OpenLayer ==
    /\ tarPc = "open"
    /\ IF tarIdx > Len(tarLayers)
       THEN /\ tarPc' = "done"
            /\ UNCHANGED <<tarIdx, tarPos, tarErr>>
       ELSE IF ~tarLayers[tarIdx].opens
       THEN /\ tarIdx' = tarIdx + 1
            /\ UNCHANGED <<tarPc, tarPos, tarErr>>
       ELSE /\ tarPc' = "next"
            /\ tarPos' = 1
            /\ tarErr' = FALSE
            /\ UNCHANGED tarIdx
    /\ UNCHANGED <<tarFn, tarLayers, tarCancelled, tarSpin, tarRest>>

\* tr.Next(): the error of a failed read is returned by every later call
TarReaderNext(layer, pos, failed) ==
    IF failed THEN "error"
    ELSE IF pos > Len(layer) THEN "EOF"
    ELSE IF layer[pos] = "corrupt" THEN "error"
    ELSE "header"

\* one turn of the inner loop: the select on ctx.Done(), tr.Next(), and the
\* rest of the loop body
ReadLoopTurn ==
    /\ tarPc = "next"
    /\ IF tarCancelled
       THEN /\ tarPc' = "cancelled"
            /\ UNCHANGED <<tarIdx, tarPos, tarErr, tarSpin>>
       ELSE LET got == TarReaderNext(tarLayers[tarIdx].items, tarPos, tarErr)
            IN  IF got = "EOF"
                THEN /\ tarPc' = "open"
                     /\ tarIdx' = tarIdx + 1
                     /\ UNCHANGED <<tarPos, tarErr, tarSpin>>
                ELSE IF got = "error"
                THEN /\ tarErr' = TRUE
                     /\ tarSpin' = ~tarSpin
                     /\ UNCHANGED <<tarPc, tarIdx, tarPos>>
                ELSE /\ tarPos' = tarPos + 1
                     /\ UNCHANGED <<tarPc, tarIdx, tarErr, tarSpin>>
    /\ UNCHANGED <<tarFn, tarLayers, tarCancelled, tarRest>>

\* the request's context is cancelled
ContextCancel ==
    /\ tarPc \in {"open", "next"}
    /\ ~tarCancelled
    /\ tarCancelled' = TRUE
    /\ UNCHANGED <<tarFn, tarLayers, tarIdx, tarPos, tarErr, tarPc, tarSpin, tarRest>>

TarSpecInit ==
    /\ now = 0
    /\ CapsInit /\ CacheInit /\ FsQuiet /\ ExtInit

TarNext ==
    \/ \E fn \in {"buildFilesystemTreeFromFiles", "readFileFromCachedLayers"},
          layerPaths \in TarInputs(MaxTarLayers, MaxTarItems) :
            ReadLoopStart(fn, layerPaths)
    \/ OpenLayer
    \/ ReadLoopTurn
    \/ ContextCancel

\* the goroutine that runs the function is scheduled for as long as it has a
\* statement to execute; nothing obliges a client to cancel
SpecTar ==
    TarSpecInit /\ [][TarNext]_vars /\ WF_vars(OpenLayer) /\ WF_vars(ReadLoopTurn)

\* C25: filesystem reconstruction and get_file terminate on every input: when
\* reading a layer yields an error other than end-of-file, the per-layer loop
\* still ends (the function returns) instead of reading again forever.
C25_ReadLoopTerminates ==
    (tarPc \in {"open", "next"}) ~> (tarPc \in {"done", "cancelled"})

MaxHubCalls == 4
NumPorts == 2

HubContexts == {"ctx-a", "ctx-b"}
LocalPorts == 1 .. NumPorts
RelayNamespaces == {"kube-system", "cilium"}
RelayPorts == {80, 4245}

\* what StartMetricsPortForward hands back: an error, a MetricsConnectionInfo
\* that is not connected, or one that is connected on a local port
PortForwardResults ==
    {[err |-> TRUE, Connected |-> FALSE, LocalPort |-> 0],
     [err |-> FALSE, Connected |-> FALSE, LocalPort |-> 0]}
        \cup {[err |-> FALSE, Connected |-> TRUE, LocalPort |-> p] : p \in LocalPorts}

hubRest == <<now, capsVars, cacheVars, fsVars, sseVars, authVars, helmVars, argoVars, imgVars, healthVars, tarVars, strVars, termVars, polVars>>

closeConnectionLocked_KeepsObserver(h) ==
    [h EXCEPT !.grpcConn = NilConn, !.isConnected = FALSE, !.localPort = 0]

closeConnectionLocked_KeepsLocalPort(h) ==
    [h EXCEPT !.grpcConn = NilConn, !.observerClient = NilConn, !.isConnected = FALSE]

closeConnectionLocked(h) ==
    [h EXCEPT !.grpcConn = NilConn, !.observerClient = NilConn,
              !.isConnected = FALSE, !.localPort = 0]

\* serverStatusOk: the ServerStatus call returns without error within 3 seconds
testConnection(h, serverStatusOk) ==
    h.observerClient # NilConn /\ serverStatusOk

AlreadyConnected_Never(h, contextName) == FALSE

\* the guard of the reuse branch: a connection exists for the same context
AlreadyConnected(h, contextName) ==
    h.grpcConn # NilConn /\ h.currentContext = contextName

HubInfo(op, connected, port, error) ==
    [op |-> op, Connected |-> connected, LocalPort |-> port, Error |-> error]

\* the contexts that were current when the settings named in fields were
\* stored ("" when none was, or nothing is stored)
Tags(fields) == {hubFrom[f] : f \in fields}

\* Connect, from taking the lock to the end of the stale-state handling
Connect(contextName, serverStatusOk) ==
    /\ hubPc = "idle"
    /\ hubCalls < MaxHubCalls
    /\ hubCalls' = hubCalls + 1
    /\ LET same == AlreadyConnected(hubble, contextName)
           alive == same /\ testConnection(hubble, serverStatusOk)
           h1 == IF same THEN closeConnectionLocked(hubble) ELSE hubble
           h2 == IF h1.currentContext # contextName
                 THEN [closeConnectionLocked(h1) EXCEPT !.currentContext = contextName]
                 ELSE h1
       IN /\ hubCall' = [contextName |-> contextName, h |-> hubble,
                         pfStarts |-> pfStarts, grpcDials |-> grpcDials,
                         probed |-> /\ hubble.grpcConn # NilConn
                                    /\ hubble.currentContext = contextName
                                    /\ hubble.observerClient # NilConn
                                    /\ serverStatusOk,
                         forwarded |-> FALSE, usedFrom |-> {}]
          /\ IF alive
             THEN /\ hubble' = hubble
                  /\ hubPc' = "idle"
                  /\ hubResp' = HubInfo("connect", TRUE, hubble.localPort, None)
             ELSE /\ hubble' = h2
                  /\ hubPc' = "relayPort"
                  /\ hubResp' = hubResp
    /\ UNCHANGED <<pfStarts, grpcDials, hubFrom, pfRunning, hubRest>>

\* the relay port is looked up when none is stored
ConnectRelayPort(getOk, port) ==
    /\ hubPc = "relayPort"
    /\ IF hubble.relayPort # 0
       THEN /\ hubPc' = "forward"
            /\ UNCHANGED <<hubble, hubResp, hubFrom>>
       ELSE IF ~getOk
            THEN /\ hubPc' = "idle"
                 /\ hubResp' = HubInfo("connect", FALSE, 0, "service not found")
                 /\ UNCHANGED <<hubble, hubFrom>>
            ELSE /\ hubPc' = "forward"
                 /\ hubble' = [hubble EXCEPT !.relayPort = port]
                 /\ hubFrom' = [hubFrom EXCEPT !.relayPort = hubCall.contextName]
                 /\ hubResp' = hubResp
    /\ UNCHANGED <<hubCall, pfStarts, grpcDials, pfRunning, hubCalls, hubRest>>

\* StartMetricsPortForward(ctx, namespace, hubbleRelayService, h.relayPort,
\* contextName), namespace being h.relayNamespace or "kube-system"
ConnectPortForward(pf) ==
    /\ hubPc = "forward"
    /\ pfStarts' = pfStarts + 1
    /\ hubCall' = [hubCall EXCEPT
                     !.usedFrom = @ \cup Tags({"relayNamespace", "relayPort"}),
                     !.forwarded = ~pf.err /\ pf.Connected]
    /\ IF pf.err
       THEN /\ hubPc' = "idle"
            /\ hubResp' = HubInfo("connect", FALSE, 0, "port-forward failed")
            /\ UNCHANGED <<hubble, pfRunning>>
       ELSE IF ~pf.Connected
            THEN /\ hubPc' = "idle"
                 /\ hubResp' = HubInfo("connect", FALSE, pf.LocalPort, "not connected")
                 /\ UNCHANGED <<hubble, pfRunning>>
            ELSE /\ hubPc' = "dial"
                 /\ hubble' = [hubble EXCEPT !.localPort = pf.LocalPort]
                 /\ pfRunning' = TRUE
                 /\ hubResp' = hubResp
    /\ UNCHANGED <<grpcDials, hubFrom, hubCalls, hubRest>>

\* grpc.NewClient, with the stored TLS configuration when useTLS is set; the
\* port-forward is stopped when it fails
ConnectDial(dialOk) ==
    /\ hubPc = "dial"
    /\ grpcDials' = grpcDials + 1
    /\ hubCall' = [hubCall EXCEPT !.usedFrom = @ \cup Tags({"useTLS"})]
    /\ IF ~dialOk
       THEN /\ hubPc' = "idle"
            /\ pfRunning' = FALSE
            /\ hubble' = [hubble EXCEPT !.localPort = 0]
            /\ hubResp' = HubInfo("connect", FALSE, 0, "grpc connection failed")
       ELSE /\ hubPc' = "test"
            /\ pfRunning' = pfRunning
            /\ hubble' = [hubble EXCEPT !.grpcConn = grpcDials + 1,
                                        !.observerClient = grpcDials + 1,
                                        !.isConnected = TRUE]
            /\ hubResp' = hubResp
    /\ UNCHANGED <<pfStarts, hubFrom, hubCalls, hubRest>>

ConnectTest(serverStatusOk) ==
    /\ hubPc = "test"
    /\ hubPc' = "idle"
    /\ IF ~testConnection(hubble, serverStatusOk)
       THEN /\ hubble' = closeConnectionLocked(hubble)
            /\ pfRunning' = FALSE
            /\ hubResp' = HubInfo("connect", FALSE, 0, "connection test failed")
       ELSE /\ hubble' = hubble
            /\ pfRunning' = pfRunning
            /\ hubResp' = HubInfo("connect", TRUE, hubble.localPort, None)
    /\ UNCHANGED <<hubCall, pfStarts, grpcDials, hubFrom, hubCalls, hubRest>>

Close ==
    /\ hubPc = "idle"
    /\ hubCalls < MaxHubCalls
    /\ hubCalls' = hubCalls + 1
    /\ hubble' = [closeConnectionLocked(hubble) EXCEPT !.currentContext = "",
                                                       !.relayNamespace = ""]
    /\ hubFrom' = [hubFrom EXCEPT !.relayNamespace = ""]
    /\ hubResp' = HubInfo("close", FALSE, 0, None)
    /\ UNCHANGED <<hubPc, hubCall, pfStarts, grpcDials, pfRunning, hubRest>>

\* Detect stores the namespace, port and TLS setting of the relay it found,
\* and nothing when it found none
Detect(available, namespace, port, useTLS) ==
    /\ hubPc = "idle"
    /\ hubCalls < MaxHubCalls
    /\ hubCalls' = hubCalls + 1
    /\ IF available
       THEN /\ hubble' = [hubble EXCEPT !.relayNamespace = namespace,
                                        !.relayPort = port, !.useTLS = useTLS]
            /\ hubFrom' = [f \in DOMAIN hubFrom |-> hubble.currentContext]
       ELSE UNCHANGED <<hubble, hubFrom>>
    /\ hubResp' = HubInfo("detect", FALSE, 0, None)
    /\ UNCHANGED <<hubPc, hubCall, pfStarts, grpcDials, pfRunning, hubRest>>

HubSpecInit ==
    /\ now = 0
    /\ CapsInit /\ CacheInit /\ FsQuiet /\ ExtInit

HubNext ==
    \/ \E contextName \in HubContexts, serverStatusOk \in BOOLEAN :
            Connect(contextName, serverStatusOk)
    \/ \E getOk \in BOOLEAN, port \in RelayPorts : ConnectRelayPort(getOk, port)
    \/ \E pf \in PortForwardResults : ConnectPortForward(pf)
    \/ \E dialOk \in BOOLEAN : ConnectDial(dialOk)
    \/ \E serverStatusOk \in BOOLEAN : ConnectTest(serverStatusOk)
    \/ Close
    \/ \E available \in BOOLEAN, namespace \in RelayNamespaces, port \in RelayPorts,
          useTLS \in BOOLEAN :
            Detect(available, namespace, port, useTLS)

SpecHub == HubSpecInit /\ [][HubNext]_vars

\* C29: whenever no call holds the mutex, isConnected is true exactly when both
\* grpcConn and observerClient are non-nil, and localPort is 0 whenever
\* isConnected is false, after any sequence of Detect, Connect and Close.
C29_ConnectionStateConsistent ==
    hubPc = "idle" =>
        /\ hubble.isConnected <=>
              (hubble.grpcConn # NilConn /\ hubble.observerClient # NilConn)
        /\ ~hubble.isConnected => hubble.localPort = 0

\* a Connect that found a connection, replaced it and failed its test has
\* returned, and a port had been taken in between
C29_Witness ==
    /\ hubPc = "idle"
    /\ hubResp.op = "connect"
    /\ hubResp.Error = "connection test failed"
    /\ hubCall.h.isConnected
    /\ ~hubble.isConnected

\* C30: a Connect call that finds a gRPC connection for the same context and
\* whose ServerStatus probe succeeds returns Connected = true with the local
\* port it found, and has neither started a port-forward nor created a gRPC
\* connection.
C30_ConnectIdempotent ==
    (hubPc = "idle" /\ hubResp.op = "connect" /\ hubCall.probed) =>
        /\ hubResp.Connected
        /\ hubResp.LocalPort = hubCall.h.localPort
        /\ pfStarts = hubCall.pfStarts
        /\ grpcDials = hubCall.grpcDials
        /\ hubble = hubCall.h

C30_Witness ==
    /\ hubPc = "idle"
    /\ hubResp.op = "connect"
    /\ hubCall.probed
    /\ hubResp.Connected
    /\ hubResp.LocalPort \in LocalPorts
    /\ pfStarts > 0

\* C31: a Connect call whose context name differs from the current one uses
\* no state derived from the previous context: the connection it leaves is not
\* the one it found, and the relay namespace, relay port and TLS setting its
\* port-forward and dial used were not stored under another context.
C31_NoStaleStateAfterContextChange ==
    hubCall.contextName # hubCall.h.currentContext =>
        /\ hubCall.usedFrom \subseteq {"", hubCall.contextName}
        /\ hubPc = "idle" =>
              (hubble.grpcConn = NilConn \/ hubble.grpcConn # hubCall.h.grpcConn)

\* C32: a Connect call that started a port-forward and returns Connected =
\* false has stopped the port-forward and left grpcConn and observerClient
\* nil, isConnected false and localPort 0.
C32_FailedConnectCleansUp ==
    (hubPc = "idle" /\ hubResp.op = "connect" /\ hubCall.forwarded /\ ~hubResp.Connected) =>
        /\ ~pfRunning
        /\ hubble.grpcConn = NilConn
        /\ hubble.observerClient = NilConn
        /\ ~hubble.isConnected
        /\ hubble.localPort = 0

\* the dial failed, or the probe of the new connection did
C32_Witness ==
    /\ hubPc = "idle"
    /\ hubResp.op = "connect"
    /\ hubCall.forwarded
    /\ ~hubResp.Connected
    /\ grpcDials > hubCall.grpcDials
    /\ hubResp.Error = "connection test failed"

(***************************************************************************)
(* StreamFlows (internal/traffic/hubble.go): the goroutine that reads the  *)
(* GetFlows stream and feeds flowCh, the consumer of flowCh, and the       *)
(* caller's context.                                                       *)
(***************************************************************************)
strRest == <<now, capsVars, cacheVars, fsVars, sseVars, authVars, helmVars, argoVars, imgVars, healthVars, tarVars, hubVars, termVars, polVars>>

\* StreamFlows makes the channel, starts the goroutine and returns
StreamFlows ==
    /\ strPc = "idle"
    /\ strPc' = "start"
    /\ UNCHANGED <<strClient, strStream, strCancelled, flowLen, flowClosed, strDropped,
                   sentAfterClose, strRest>>

\* the goroutine up to the loop: the client is read under the read lock and
\* GetFlows opens the stream; the deferred close runs on both returns
StreamOpen(client, getFlowsOk) ==
    /\ strPc = "start"
    /\ strClient' = client
    /\ IF client /\ getFlowsOk /\ ~strCancelled
       THEN /\ strPc' = "recv"
            /\ strStream' = "open"
            /\ flowClosed' = flowClosed
       ELSE /\ strPc' = "exited"
            /\ strStream' = strStream
            /\ flowClosed' = flowClosed + 1
    /\ UNCHANGED <<strCancelled, flowLen, strDropped, sentAfterClose, strRest>>

\* stream.Recv() returns: a response while the stream is open and ctx is not
\* done, io.EOF or an error once the stream has ended or ctx is done
StreamRecv(hasFlow) ==
    /\ strPc = "recv"
    /\ IF strStream = "ended" \/ strCancelled
       THEN /\ strPc' = "exited"
            /\ flowClosed' = flowClosed + 1
       ELSE /\ strPc' = IF hasFlow THEN "select" ELSE "recv"
            /\ flowClosed' = flowClosed
    /\ UNCHANGED <<strClient, strStream, strCancelled, flowLen, strDropped,
                   sentAfterClose, strRest>>

SelectReady_NoDefault(len, cancelled) == len < flowChCap \/ cancelled

\* the select has a default case, so it never waits
SelectReady(len, cancelled) == TRUE

\* select { case flowCh <- flow: case <-ctx.Done(): return default: }: one of
\* the ready cases is taken, the default when none is
StreamSelect(takeDone) ==
    /\ strPc = "select"
    /\ SelectReady(flowLen, strCancelled)
    /\ IF strCancelled /\ (takeDone \/ flowLen >= flowChCap)
       THEN /\ strPc' = "exited"
            /\ flowClosed' = flowClosed + 1
            /\ UNCHANGED <<flowLen, strDropped, sentAfterClose>>
       ELSE IF flowLen < flowChCap
       THEN /\ strPc' = "recv"
            /\ flowLen' = flowLen + 1
            /\ sentAfterClose' = (sentAfterClose \/ flowClosed > 0)
            /\ UNCHANGED <<flowClosed, strDropped>>
       ELSE /\ strPc' = "recv"
            /\ strDropped' = TRUE
            /\ UNCHANGED <<flowLen, flowClosed, sentAfterClose>>
    /\ UNCHANGED <<strClient, strStream, strCancelled, strRest>>

\* the reader of the channel takes a flow
Consume ==
    /\ flowLen > 0
    /\ flowLen' = flowLen - 1
    /\ UNCHANGED <<strPc, strClient, strStream, strCancelled, flowClosed, strDropped,
                   sentAfterClose, strRest>>

StreamCancel ==
    /\ strPc # "idle"
    /\ ~strCancelled
    /\ strCancelled' = TRUE
    /\ UNCHANGED <<strPc, strClient, strStream, flowLen, flowClosed, strDropped,
                   sentAfterClose, strRest>>

\* the relay ends the stream
StreamEnd ==
    /\ strStream = "open"
    /\ strStream' = "ended"
    /\ UNCHANGED <<strPc, strClient, strCancelled, flowLen, flowClosed, strDropped,
                   sentAfterClose, strRest>>

StreamSpecInit ==
    /\ now = 0
    /\ CapsInit /\ CacheInit /\ FsQuiet /\ ExtInit

StreamNext ==
    \/ StreamFlows
    \/ \E client \in BOOLEAN, getFlowsOk \in BOOLEAN : StreamOpen(client, getFlowsOk)
    \/ \E hasFlow \in BOOLEAN : StreamRecv(hasFlow)
    \/ \E takeDone \in BOOLEAN : StreamSelect(takeDone)
    \/ Consume
    \/ StreamCancel
    \/ StreamEnd

\* the goroutine is scheduled while it has a statement that can execute;
\* nothing obliges the consumer to read or the caller to cancel
SpecStream ==
    /\ StreamSpecInit /\ [][StreamNext]_vars
    /\ WF_vars(\E client \in BOOLEAN, getFlowsOk \in BOOLEAN : StreamOpen(client, getFlowsOk))
    /\ WF_vars(\E hasFlow \in BOOLEAN : StreamRecv(hasFlow))
    /\ WF_vars(\E takeDone \in BOOLEAN : StreamSelect(takeDone))

\* C33: the StreamFlows goroutine never waits on a slow consumer (a flow that
\* finds the 100-slot channel full is dropped), so once the stream has ended
\* or the context is cancelled it reaches its exit; the channel is closed
\* exactly once, on exit, and nothing is sent after the close.
C33_ProducerNeverBlocks ==
    /\ [](flowLen <= flowChCap /\ ~sentAfterClose)
    /\ [](flowClosed = (IF strPc = "exited" THEN 1 ELSE 0))
    /\ [](strPc = "select" => ENABLED (\E takeDone \in BOOLEAN : StreamSelect(takeDone)))
    /\ (strPc \in {"start", "recv", "select"} /\ (strStream = "ended" \/ strCancelled))
           ~> (strPc = "exited")

\* the goroutine has exited after dropping a flow on a full channel that the
\* consumer still has not emptied
C33_Witness ==
    /\ strPc = "exited"
    /\ strDropped
    /\ flowLen = flowChCap
    /\ flowClosed = 1

(***************************************************************************)
(* handleArgoSuspend and handleArgoResume (setArgoAutomatedSync) on one    *)
(* Application: each request is a Get of the application and a merge patch *)
(* computed from what the Get returned.                                    *)
(***************************************************************************)
MaxPolOps == 3

polRest == <<now, capsVars, cacheVars, fsVars, sseVars, authVars, helmVars, argoVars, imgVars, healthVars, tarVars, hubVars, strVars, termVars>>

\* v, ok := automated[key].(bool): the value when the key holds a bool,
\* the default otherwise
BoolOr(v, default) == IF v = "missing" THEN default ELSE (v = "true")

\* fmt.Sprintf("%v", b)
FormatBool(b) == IF b THEN "true" ELSE "false"

\* the merge patch of suspend: the current settings (false when there is no
\* automated policy or no such key) go into the annotations, automated is
\* removed
SuspendPatch(app) ==
    LET found == app.automated.present
        prune == IF found THEN BoolOr(app.automated.prune, FALSE) ELSE FALSE
        selfHeal == IF found THEN BoolOr(app.automated.selfHeal, FALSE) ELSE FALSE
    IN  [automated |-> NoAutomated,
         annotations |-> [prune |-> FormatBool(prune), selfheal |-> FormatBool(selfHeal)]]

\* the merge patch of resume: prune and selfHeal come from the annotations
\* (true when an annotation is absent), the annotations are removed
ResumePatch(app) ==
    LET prune == IF app.annotations.prune = "absent" THEN TRUE
                 ELSE app.annotations.prune = "true"
        selfHeal == IF app.annotations.selfheal = "absent" THEN TRUE
                    ELSE app.annotations.selfheal = "true"
    IN  [automated |-> Automated(TRUE, FormatBool(prune), FormatBool(selfHeal)),
         annotations |-> NoSuspendedAnnotations]

PolEntry(enable, status, before, after) ==
    [op |-> IF enable THEN "resume" ELSE "suspend", status |-> status,
     before |-> before, after |-> after]

\* one suspend (enable = FALSE) or resume (enable = TRUE) request
setArgoAutomatedSync(enable, getResult, patchErr) ==
    /\ Len(polLog) < MaxPolOps
    /\ LET status == IF ~argoClient THEN 503
                     ELSE IF getResult = "not found" THEN 404
                     ELSE IF getResult = "error" THEN 500
                     ELSE IF patchErr THEN 500
                     ELSE 200
           patched == IF enable THEN ResumePatch(polApp) ELSE SuspendPatch(polApp)
       IN /\ polApp' = IF status = 200 THEN patched ELSE polApp
          /\ polLog' = Append(polLog, PolEntry(enable, status, polApp, polApp'))
    /\ UNCHANGED polRest

PolSpecInit ==
    /\ now = 0
    /\ CapsInit /\ CacheInit /\ FsQuiet
    /\ SseInit /\ AuthInit /\ HelmQuiet /\ ArgoInit /\ ImgInit /\ HealthInit /\ TarInit
    /\ HubInit /\ StreamInit /\ TermInit
    /\ polApp \in [automated : AutomatedPolicies, annotations : {NoSuspendedAnnotations}]
    /\ polLog = <<>>

PolClientInit ==
    /\ ArgoClientInit
    /\ UNCHANGED polVars

PolNext ==
    \/ PolClientInit
    \/ \E enable \in BOOLEAN, getResult \in {"ok", "not found", "error"}, patchErr \in BOOLEAN :
            setArgoAutomatedSync(enable, getResult, patchErr)

SpecPol == PolSpecInit /\ [][PolNext]_vars

\* prune or selfHeal in effect: a missing key counts as false
InEffect(v) == v = "true"

SameAutomated(a, b) ==
    /\ a.present = b.present
    /\ a.present => /\ InEffect(a.prune) = InEffect(b.prune)
                    /\ InEffect(a.selfHeal) = InEffect(b.selfHeal)

Done(i, op) == polLog[i].op = op /\ polLog[i].status = 200

\* C35: a suspend followed by a resume leaves spec.syncPolicy.automated as it
\* was before the suspend (same presence, same prune and selfHeal) and the
\* two suspended-* annotations removed.
C35_SuspendResumeRestores ==
    \A i \in 1 .. Len(polLog) - 1 :
        (Done(i, "suspend") /\ Done(i + 1, "resume")) =>
            /\ SameAutomated(polLog[i].before.automated, polLog[i + 1].after.automated)
            /\ polLog[i + 1].after.annotations = NoSuspendedAnnotations

\* C36: suspending an application that is already suspended leaves the saved
\* prune and selfHeal annotations unchanged, so that a later resume restores
\* the settings from before the first suspend.
C36_SuspendIdempotent ==
    \A i \in 1 .. Len(polLog) - 1 :
        (Done(i, "suspend") /\ Done(i + 1, "suspend")) =>
            /\ polLog[i + 1].after.annotations = polLog[i].after.annotations
            /\ (i + 2 <= Len(polLog) /\ Done(i + 2, "resume")) =>
                  SameAutomated(polLog[i].before.automated, polLog[i + 2].after.automated)

====
